---------------------------- MODULE Spec2Model ----------------------------
(***************************************************************************)
(* A model of the hdc compiler front end: the tokenizer                   *)
(* (parser/src/tokenizer), the recursive-descent parser                   *)
(* (parser/src/parsing), the semantic analyzer (compiler/src/analysis)    *)
(* and the part of the code generator (compiler/src/codegen) that drives  *)
(* the analyzer and maintains the IR binding table.                       *)
(*                                                                         *)
(* Each stage has its own specification: SpecLex, SpecParse, SpecSem (the *)
(* analyzer through its public interface) and SpecGen (the generator      *)
(* lowering the statements of one program).  The variables of the other   *)
(* stages stay at their initial values.                                   *)
(***************************************************************************)
EXTENDS Integers, Sequences, FiniteSets, TLC

VARIABLES
    content,    \* Tokenizer: the source, as gen's `chars: Vec<char>`
    cursor,     \* Tokenizer: gen's Cursor {line, column, idx}
    vec,        \* Tokenizer: gen's VecDeque<Token> under construction
    lexres,     \* Tokenizer: position of gen: running, returned Ok, returned Err
    parser,     \* Parser: the instance, {tokens, backtrace}
    caller,     \* Parser: the caller's token queue, passed as &mut to parse_tokens
    pres,       \* Parser: what the last call of parse_tokens returned
    pcalls,     \* Parser: the number of calls of parse_tokens so far
    pfed,       \* Parser: some call so far was given a non-empty token queue
    analyzer,   \* Analyzer: SemanticAnalayzer.variables, the symbol table
    acall,      \* Analyzer: the last call of analyze_expr: argument, table before, result
    recent,     \* Analyzer: per name, the initializer type of the latest successful let
                \* (kept while letsonly)
    letsonly,   \* Analyzer: no function declaration has been analyzed so far
    generator,  \* Generator: CodeGenerator {analyzer, variables}
    gcall       \* Generator: the last statement compile_ast lowered, and its result

lexvars == <<content, cursor, vec, lexres>>
parvars == <<parser, caller, pres, pcalls, pfed>>
semvars == <<analyzer, acall, recent, letsonly>>
genvars == <<generator, gcall>>

vars == <<content, cursor, vec, lexres, parser, caller, pres, pcalls, pfed,
          analyzer, acall, recent, letsonly, generator, gcall>>

\* The state of a stage that is not running.
LexIdle ==
    /\ content = <<>>
    /\ cursor = [line |-> 1, column |-> 0, idx |-> 0]
    /\ vec = <<>>
    /\ lexres = [st |-> "idle", kind |-> "", arg |-> <<>>, line |-> 0, column |-> 0]
ParIdle ==
    /\ parser = [tokens |-> <<>>, backtrace |-> <<>>]
    /\ caller = <<>>
    /\ pres = [ok |-> FALSE, err |-> "idle", expr |-> "idle"]
    /\ pcalls = 0
    /\ pfed = FALSE
SemIdle ==
    /\ analyzer = <<>>
    /\ acall = [st |-> "idle"]
    /\ recent = <<>>
    /\ letsonly = TRUE
GenIdle ==
    /\ generator = [analyzer |-> <<>>, variables |-> <<>>, ir |-> <<>>,
                    fnload |-> "value"]
    /\ gcall = [st |-> "idle"]

(***************************************************************************)
(*                              TOKENIZER                                  *)
(***************************************************************************)

\* Bound: a source is the concatenation of at most MaxPieces lexeme pieces.
MaxPieces == 4

\* The characters the model's sources are written with, by the class the
\* char predicates of the tokenizer put them in.
Digits == {"0", "1", "2", "3", "4", "5", "6", "7", "8", "9"}
Letters == {"a", "c", "e", "f", "l", "n", "t", "u", "x", "y"}
WhiteChars == {" ", "\t", "\r", "\n"}

is_whitespace(chr) == chr \in WhiteChars
is_ascii_digit(chr) == chr \in Digits
is_alphabetic(chr) == chr \in Letters
is_alphanumeric(chr) == chr \in Letters \cup Digits

\* A String is the sequence of its chars, a char a one-character string.
\* TokenKind, as a record of uniform shape: the variant, the Operator of an
\* Operator token, the String payload of an Identifier / IntLit / FloatLit.
Kind(tag) == [tag |-> tag, op |-> "", s |-> <<>>]
OpKind(op) == [tag |-> "Operator", op |-> op, s |-> <<>>]
StrKind(tag, buf) == [tag |-> tag, op |-> "", s |-> buf]

\* Token::new(kind, &cursor)
Token(kind, c) == [kind |-> kind, line |-> c.line, column |-> c.column]

\* Cursor
CursorNew == [line |-> 1, column |-> 0, idx |-> 0]
Advance(c) == [c EXCEPT !.column = @ + 1, !.idx = @ + 1]
Backward(c) == [c EXCEPT !.column = @ - 1, !.idx = @ - 1]
AdvanceLine(c) == [line |-> c.line + 1, column |-> 0, idx |-> c.idx + 1]

\* chars.get(cursor.index()): idx is 0-based, sequences are 1-based.
HasChar(chars, c) == c.idx < Len(chars)
CharAt(chars, c) == chars[c.idx + 1]

\* TokenizationError::new(kind, cursor)
LexError(kind, arg, c) ==
    [st |-> "err", kind |-> kind, arg |-> arg, line |-> c.line, column |-> c.column]
LexRunning == [st |-> "running", kind |-> "", arg |-> <<>>, line |-> 0, column |-> 0]
LexOk == [st |-> "ok", kind |-> "", arg |-> <<>>, line |-> 0, column |-> 0]

\* Tokenizer::get_char(cursor, chars, true): the character under the cursor
\* or the FoundUnexpectedEof error built from the cursor before it advances;
\* the cursor advances in both cases.
get_char(c, chars) ==
    [ok     |-> HasChar(chars, c),
     chr    |-> IF HasChar(chars, c) THEN CharAt(chars, c) ELSE "",
     err    |-> LexError("FoundUnexpectedEof", <<>>, c),
     cursor |-> Advance(c)]

\* Tokenizer::check_for_reserved
check_for_reserved(buf, c) ==
    CASE buf = <<"l", "e", "t">>       -> Token(Kind("Let"), c)
      [] buf = <<"f", "u", "n", "c">>  -> Token(Kind("Func"), c)
      [] OTHER        -> Token(StrKind("Identifier", buf), c)

\* The loop of get_identifier: ends with the cursor on the character that
\* stopped the run (one backward), or with get_char's error.
RECURSIVE IdentLoop(_, _, _)
IdentLoop(c, chars, buf) ==
    LET g == get_char(c, chars) IN
    IF ~g.ok THEN [ok |-> FALSE, err |-> g.err, cursor |-> g.cursor, buf |-> buf]
    ELSE IF is_alphanumeric(g.chr)
         THEN IdentLoop(g.cursor, chars, Append(buf, g.chr))
         ELSE [ok |-> TRUE, err |-> LexOk, cursor |-> Backward(g.cursor), buf |-> buf]

\* A variant of get_identifier that leaves the cursor on the character
\* after the run (the second backward() is missing).
get_identifier_one_backward(c, chars) ==
    LET l == IdentLoop(c, chars, <<>>) IN
    IF ~l.ok THEN [ok |-> FALSE, err |-> l.err, cursor |-> l.cursor, token |-> Token(Kind(""), c)]
    ELSE [ok |-> TRUE, err |-> LexOk, cursor |-> l.cursor,
          token |-> check_for_reserved(l.buf, l.cursor)]

\* Tokenizer::get_identifier
get_identifier(c, chars) ==
    LET l == IdentLoop(c, chars, <<>>) IN
    IF ~l.ok THEN [ok |-> FALSE, err |-> l.err, cursor |-> l.cursor, token |-> Token(Kind(""), c)]
    ELSE LET c2 == Backward(l.cursor) IN
         [ok |-> TRUE, err |-> LexOk, cursor |-> c2,
          token |-> check_for_reserved(l.buf, c2)]

\* The loop of get_digit_lit.
RECURSIVE DigitLoop(_, _, _, _, _)
DigitLoop(c, chars, buf, hasdot, rnormal) ==
    LET g == get_char(c, chars) IN
    IF ~g.ok
    THEN [ok |-> FALSE, err |-> g.err, cursor |-> g.cursor, buf |-> buf,
          hasdot |-> hasdot, rnormal |-> rnormal]
    ELSE IF is_ascii_digit(g.chr) \/ g.chr = "."
         THEN DigitLoop(g.cursor, chars, Append(buf, g.chr),
                        hasdot \/ g.chr = ".",
                        rnormal /\ ~(hasdot /\ g.chr = "."))
         ELSE [ok |-> TRUE, err |-> LexOk, cursor |-> Backward(g.cursor), buf |-> buf,
               hasdot |-> hasdot, rnormal |-> rnormal]

\* Tokenizer::get_digit_lit
get_digit_lit(c, chars) ==
    LET l == DigitLoop(c, chars, <<>>, FALSE, TRUE) IN
    IF ~l.ok THEN [ok |-> FALSE, err |-> l.err, cursor |-> l.cursor, token |-> Token(Kind(""), c)]
    ELSE IF ~l.rnormal
         THEN [ok |-> FALSE, err |-> LexError("InvalidDigit", l.buf, l.cursor),
               cursor |-> l.cursor, token |-> Token(Kind(""), c)]
         ELSE LET c2 == Backward(l.cursor) IN
              [ok |-> TRUE, err |-> LexOk, cursor |-> c2,
               token |-> IF l.hasdot THEN Token(StrKind("FloatLit", l.buf), c2)
                                     ELSE Token(StrKind("IntLit", l.buf), c2)]

\* The single-character arms of gen's match.
PunctChars == {";", ":", "=", "+", "-", "*", "/", "(", ")", "{", "}"}
PunctKind(chr) ==
    CASE chr = ";" -> Kind("SemiColon")
      [] chr = ":" -> Kind("Colon")
      [] chr = "=" -> OpKind("Eq")
      [] chr = "+" -> OpKind("Plus")
      [] chr = "-" -> OpKind("Minus")
      [] chr = "*" -> OpKind("Star")
      [] chr = "/" -> OpKind("Bar")
      [] chr = "(" -> Kind("OpenParen")
      [] chr = ")" -> Kind("CloseParen")
      [] chr = "{" -> Kind("OpenBrace")
      [] chr = "}" -> Kind("CloseBrace")

\* The sources of the model: concatenations of at most MaxPieces pieces.
Pieces ==
    { <<"l", "e", "t">>, <<"f", "u", "n", "c">>, <<"a">>, <<"1">>, <<".">>,
      <<";">>, <<" ">>, <<"\n">> }

RECURSIVE Sources(_)
Sources(n) ==
    IF n = 0 THEN { <<>> }
    ELSE LET shorter == Sources(n - 1) IN
         shorter \cup { s \o p : s \in shorter, p \in Pieces }

LexInit ==
    /\ content \in Sources(MaxPieces)
    /\ cursor = CursorNew
    /\ vec = <<>>
    /\ lexres = LexRunning
    /\ ParIdle
    /\ SemIdle
    /\ GenIdle

\* The tokenizer leaves the other stages alone.
LexFrame == UNCHANGED <<parvars, semvars, genvars>>

\* One iteration of gen's `while let Some(chr) = chars.get(cursor.index())`.
GenRunning == lexres.st = "running" /\ HasChar(content, cursor)

\* ';' ':' '=' '+' '-' '*' '/' '(' ')' '{' '}'
GenPunct ==
    /\ GenRunning
    /\ CharAt(content, cursor) \in PunctChars
    /\ vec' = Append(vec, Token(PunctKind(CharAt(content, cursor)), cursor))
    /\ cursor' = Advance(cursor)
    /\ UNCHANGED <<content, lexres>>
    /\ LexFrame

\* '\n'
GenNewline ==
    /\ GenRunning
    /\ CharAt(content, cursor) = "\n"
    /\ cursor' = AdvanceLine(cursor)
    /\ UNCHANGED <<content, vec, lexres>>
    /\ LexFrame

\* other whitespace
GenWhitespace ==
    /\ GenRunning
    /\ CharAt(content, cursor) # "\n"
    /\ is_whitespace(CharAt(content, cursor))
    /\ cursor' = Advance(cursor)
    /\ UNCHANGED <<content, vec, lexres>>
    /\ LexFrame

\* The arm shared by the two scanned tokens: push the token and advance, or
\* return the error.
GenScanned(r) ==
    IF r.ok
    THEN /\ vec' = Append(vec, r.token)
         /\ cursor' = Advance(r.cursor)
         /\ UNCHANGED <<content, lexres>>
    ELSE /\ lexres' = r.err
         /\ cursor' = r.cursor
         /\ UNCHANGED <<content, vec>>

GenDigit ==
    /\ GenRunning
    /\ is_ascii_digit(CharAt(content, cursor))
    /\ GenScanned(get_digit_lit(cursor, content))
    /\ LexFrame

GenIdentifier ==
    /\ GenRunning
    /\ is_alphabetic(CharAt(content, cursor))
    /\ GenScanned(get_identifier(cursor, content))
    /\ LexFrame

GenUnexpectedChar ==
    /\ GenRunning
    /\ LET chr == CharAt(content, cursor) IN
       /\ chr \notin PunctChars
       /\ ~is_whitespace(chr)
       /\ ~is_ascii_digit(chr)
       /\ ~is_alphabetic(chr)
       /\ lexres' = LexError("UnexpectedChar", <<chr>>, cursor)
    /\ UNCHANGED <<content, cursor, vec>>
    /\ LexFrame

\* The loop ends: Ok(vec).
GenDone ==
    /\ lexres.st = "running"
    /\ ~HasChar(content, cursor)
    /\ lexres' = LexOk
    /\ UNCHANGED <<content, cursor, vec>>
    /\ LexFrame

LexNext ==
    \/ GenPunct
    \/ GenNewline
    \/ GenWhitespace
    \/ GenDigit
    \/ GenIdentifier
    \/ GenUnexpectedChar
    \/ GenDone

SpecLex == LexInit /\ [][LexNext]_vars


(***************************************************************************)
(*                     TOKENIZER: the claims C7 - C9                       *)
(***************************************************************************)

LastChar(chars) == chars[Len(chars)]

\* The 0-based index just past the maximal run of digits and '.' that
\* starts at the 0-based index i.
RECURSIVE RunEnd(_, _)
RunEnd(chars, i) ==
    IF i < Len(chars) /\ (is_ascii_digit(chars[i + 1]) \/ chars[i + 1] = ".")
    THEN RunEnd(chars, i + 1)
    ELSE i

\* The characters chars[i+1 .. j] as a String.
StrOf(chars, i, j) == SubSeq(chars, i + 1, j)

RECURSIVE DotsIn(_, _, _)
DotsIn(chars, i, j) ==
    IF i >= j THEN 0
    ELSE (IF chars[i + 1] = "." THEN 1 ELSE 0) + DotsIn(chars, i + 1, j)

\* The source text of a token.
TokenText(tok) ==
    CASE tok.kind.tag = "Let"        -> <<"l", "e", "t">>
      [] tok.kind.tag = "Func"       -> <<"f", "u", "n", "c">>
      [] tok.kind.tag = "SemiColon"  -> <<";">>
      [] tok.kind.tag = "Colon"      -> <<":">>
      [] tok.kind.tag = "OpenParen"  -> <<"(">>
      [] tok.kind.tag = "CloseParen" -> <<")">>
      [] tok.kind.tag = "OpenBrace"  -> <<"{">>
      [] tok.kind.tag = "CloseBrace" -> <<"}">>
      [] tok.kind.tag = "Operator"   ->
            (CASE tok.kind.op = "Eq"    -> <<"=">>
               [] tok.kind.op = "Plus"  -> <<"+">>
               [] tok.kind.op = "Minus" -> <<"-">>
               [] tok.kind.op = "Star"  -> <<"*">>
               [] tok.kind.op = "Bar"   -> <<"/">>)
      [] OTHER                       -> tok.kind.s

RECURSIVE TokensText(_)
TokensText(toks) ==
    IF toks = <<>> THEN <<>> ELSE TokenText(Head(toks)) \o TokensText(Tail(toks))

IsNotWhitespace(chr) == ~is_whitespace(chr)
NonWhitespace(chars) == SelectSeq(chars, IsNotWhitespace)

\* C7: when the source ends inside or right after a digit run or an
\* identifier run, tokenization does not fail with FoundUnexpectedEof: the
\* end of the buffer ends the run like any non-continuing character.
C7_EofEndsRun ==
    (/\ lexres.st = "err"
     /\ content # <<>>
     /\ (is_alphanumeric(LastChar(content)) \/ LastChar(content) = "."))
    => lexres.kind # "FoundUnexpectedEof"

\* C8: a step of gen that starts on a digit scans the maximal run of digits
\* and '.' from there: with at most one '.' it pushes one literal whose
\* payload is the run verbatim (FloatLit with a '.', IntLit without) and
\* goes on after the run; with two or more it fails InvalidDigit, the whole
\* run consumed. This also when the run is the end of the source.
C8_DigitRun ==
    [][ (GenRunning /\ is_ascii_digit(CharAt(content, cursor))) =>
        LET i == cursor.idx
            j == RunEnd(content, i)
            run == StrOf(content, i, j)
            dots == DotsIn(content, i, j)
        IN  IF dots <= 1
            THEN /\ lexres'.st = "running"
                 /\ Len(vec') = Len(vec) + 1
                 /\ SubSeq(vec', 1, Len(vec)) = vec
                 /\ vec'[Len(vec')].kind =
                        StrKind(IF dots = 1 THEN "FloatLit" ELSE "IntLit", run)
                 /\ cursor'.idx = j
            ELSE /\ lexres'.st = "err"
                 /\ lexres'.kind = "InvalidDigit"
                 /\ lexres'.arg = run
                 /\ cursor'.idx = j
                 /\ vec' = vec
      ]_vars

\* C9: round trip. When tokenization succeeds, the texts of the tokens, in
\* queue order, concatenate to the non-whitespace characters of the source.
C9_RoundTrip ==
    lexres.st = "ok" => TokensText(vec) = NonWhitespace(content)

\* A successful tokenization of a source with whitespace, a keyword and a
\* literal in it.
C9_Witness ==
    /\ lexres.st = "ok"
    /\ Len(vec) >= 3
    /\ \E i \in 1..Len(content) : is_whitespace(content[i])
    /\ \E i \in 1..Len(vec) : vec[i].kind.tag = "Let"
    /\ \E i \in 1..Len(vec) : vec[i].kind.tag = "IntLit"


(***************************************************************************)
(*                                PARSER                                   *)
(***************************************************************************)

\* Expression (parsing/expr.rs). Option<String> is <<>> or <<s>>.
Program(exprs) == [tag |-> "Program", exprs |-> exprs]
Block(exprs) == [tag |-> "Block", exprs |-> exprs]
FuncDecl(identifier, params, rtype, block) ==
    [tag |-> "FuncDecl", identifier |-> identifier, params |-> params,
     rtype |-> rtype, block |-> block]
LetDecl(varname, expr) == [tag |-> "LetDecl", varname |-> varname, expr |-> expr]
BinExpr(lhs, rhs, op) == [tag |-> "BinExpr", lhs |-> lhs, rhs |-> rhs, op |-> op]
Negative(expr) == [tag |-> "Negative", expr |-> expr]
Identifier(s) == [tag |-> "Identifier", s |-> s]
IntLit(s) == [tag |-> "IntLit", s |-> s]
FloatLit(s) == [tag |-> "FloatLit", s |-> s]
Param(name, kind) == [name |-> name, kind |-> kind]
NoExpr == [tag |-> "None"]

NoToken == [kind |-> Kind(""), line |-> 0, column |-> 0]

\* ParsingError. "Abort" is not a ParsingError: it stands for the panic of
\* an unwrap() on None, which ends the call without a result.
PErr(kind) ==
    [kind |-> kind, expected |-> Kind(""), received |-> Kind(""),
     token |-> NoToken, expr |-> NoExpr]
NoErr == PErr("")
EndedTokens == PErr("EndedTokens")
InQueueParsing == PErr("InQueueParsing")
Abort == PErr("Abort")
UnexpectedToken(token) == [PErr("UnexpectedToken") EXCEPT !.token = token]
WrongToken(expected, token) ==
    [PErr("WrongToken") EXCEPT !.expected = expected, !.received = token.kind,
                               !.token = token]
ExpectedBlock(e) == [PErr("ExpectedBlock") EXCEPT !.expr = e]

\* Parser::new. A parser is its token queue and its backtrace.
ParserNew == [tokens |-> <<>>, backtrace |-> <<>>]

\* Results: of the functions that return a Token, and of those that return
\* an Expression; p is the parser the call leaves behind.
TokOk(p, tok) == [ok |-> TRUE, err |-> NoErr, p |-> p, tok |-> tok]
TokErr(p, err) == [ok |-> FALSE, err |-> err, p |-> p, tok |-> NoToken]
ExprOk(p, e) == [ok |-> TRUE, err |-> NoErr, p |-> p, expr |-> e]
ExprErr(p, err) == [ok |-> FALSE, err |-> err, p |-> p, expr |-> NoExpr]

\* Parser::create_step (line!() and column!() are fixed by fname)
create_step(p, token, fname) ==
    [p EXCEPT !.backtrace = Append(@, [fname |-> fname, token |-> token])]

\* Parser::peek
HasPeek(p) == p.tokens # <<>>
peek(p) == Head(p.tokens)
PeekIs(p, tag) == HasPeek(p) /\ peek(p).kind.tag = tag

\* Parser::eat
eat(p) ==
    IF HasPeek(p)
    THEN TokOk([p EXCEPT !.tokens = Tail(@)], Head(p.tokens))
    ELSE TokErr(p, EndedTokens)

\* Parser::expect_exact: `matches!(token.kind, ref tk)` binds tk anew and
\* matches every token, so the WrongToken arm is never taken.
expect_exact(p, tk) ==
    IF ~HasPeek(p) THEN TokErr(p, EndedTokens)
    ELSE LET token == Head(p.tokens)
             p1 == create_step([p EXCEPT !.tokens = Tail(@)], token, "expect_exact")
         IN  TokOk(p1, token)

\* An expect that takes every token for the expected one.
expect_any(p, tk) ==
    IF ~HasPeek(p) THEN TokErr(p, EndedTokens)
    ELSE LET token == Head(p.tokens) IN
         TokOk(create_step([p EXCEPT !.tokens = Tail(@)], token, "expect"), token)

\* Parser::expect: compares the discriminants, so that every Operator is
\* the expected Operator and every Identifier the expected Identifier.
expect(p, tk) ==
    IF ~HasPeek(p) THEN TokErr(p, EndedTokens)
    ELSE LET token == Head(p.tokens)
             p1 == create_step([p EXCEPT !.tokens = Tail(@)], token, "expect")
         IN  IF token.kind.tag = tk.tag
             THEN TokOk(p1, token)
             ELSE TokErr(p1, WrongToken(tk, token))

\* The parameter loop of parse_func.
RECURSIVE ParamLoop(_, _)
ParamLoop(p, params) ==
    IF PeekIs(p, "CloseParen")
    THEN [ok |-> TRUE, err |-> NoErr, p |-> eat(p).p, params |-> params]
    ELSE
    LET name == expect(p, StrKind("Identifier", <<>>)) IN
    IF ~name.ok THEN [ok |-> FALSE, err |-> name.err, p |-> name.p, params |-> params]
    ELSE
    LET colon == expect(name.p, Kind("Colon")) IN
    IF ~colon.ok THEN [ok |-> FALSE, err |-> colon.err, p |-> colon.p, params |-> params]
    ELSE
    LET ptype == expect(colon.p, StrKind("Identifier", <<>>)) IN
    IF ~ptype.ok THEN [ok |-> FALSE, err |-> ptype.err, p |-> ptype.p, params |-> params]
    ELSE
    LET params2 == Append(params, Param(name.tok.kind.s, ptype.tok.kind.s)) IN
    IF PeekIs(ptype.p, "CloseParen")
    THEN [ok |-> TRUE, err |-> NoErr, p |-> eat(ptype.p).p, params |-> params2]
    ELSE
    LET semi == expect(ptype.p, Kind("SemiColon")) IN
    IF ~semi.ok THEN [ok |-> FALSE, err |-> semi.err, p |-> semi.p, params |-> params2]
    ELSE ParamLoop(semi.p, params2)

\* The part of parse_func between the parameter list and the body: the
\* return type, and whether a Block is expected.
FuncHead(p) ==
    IF ~HasPeek(p)
    THEN [ok |-> FALSE, err |-> EndedTokens, p |-> p, rtype |-> <<>>, expect_block |-> TRUE]
    ELSE
    LET current == peek(p) IN
    CASE current.kind.tag = "Colon" ->
            LET p1 == eat(p).p
                rt == expect(p1, StrKind("Identifier", <<>>))
            IN  IF ~rt.ok
                THEN [ok |-> FALSE, err |-> rt.err, p |-> rt.p, rtype |-> <<>>,
                      expect_block |-> TRUE]
                ELSE IF HasPeek(rt.p) /\ peek(rt.p).kind = OpKind("Eq")
                     THEN [ok |-> TRUE, err |-> NoErr, p |-> eat(rt.p).p,
                           rtype |-> <<rt.tok.kind.s>>, expect_block |-> FALSE]
                     ELSE [ok |-> TRUE, err |-> NoErr, p |-> rt.p,
                           rtype |-> <<rt.tok.kind.s>>, expect_block |-> TRUE]
      [] current.kind = OpKind("Eq") ->
            [ok |-> TRUE, err |-> NoErr, p |-> eat(p).p, rtype |-> <<>>,
             expect_block |-> FALSE]
      [] current.kind.tag = "OpenBrace" ->
            [ok |-> TRUE, err |-> NoErr, p |-> p, rtype |-> <<>>, expect_block |-> TRUE]
      [] OTHER ->
            [ok |-> FALSE, err |-> UnexpectedToken(current), p |-> p, rtype |-> <<>>,
             expect_block |-> TRUE]

\* Each function below hands the result of a recursive call to an operator
\* named after what follows the call in the source (the `?` and the rest
\* of the function body).
RECURSIVE parse(_)
RECURSIVE parse_func(_, _)
RECURSIVE parse_secondary(_, _)
RECURSIVE parse_block(_)
RECURSIVE BlockLoop(_, _)
RECURSIVE parse_additive(_, _)
RECURSIVE AdditiveLoop(_, _)
RECURSIVE parse_multiplicative(_, _)
RECURSIVE MultiplicativeLoop(_, _)
RECURSIVE parse_let_expr(_)
RECURSIVE parse_primary(_, _)

\* Parser::parse
parse(p) ==
    LET tk == eat(p) IN
    IF ~tk.ok THEN ExprErr(tk.p, tk.err)
    ELSE
    LET p1 == create_step(tk.p, tk.tok, "parse") IN
    CASE tk.tok.kind.tag = "Let" -> parse_let_expr(p1)
      [] tk.tok.kind.tag = "Func" -> parse_func(p1, tk.tok)
      [] tk.tok.kind.tag \in {"IntLit", "FloatLit", "Identifier"} ->
            parse_secondary(p1, tk.tok)
      [] OTHER -> parse_primary(p1, tk.tok)

\* parse_func after `let block = self.parse()?`
FuncBody(block, fname, params, rtype, expect_block) ==
    IF ~block.ok THEN block
    ELSE IF expect_block /\ block.expr.tag # "Block"
         THEN ExprErr(block.p, ExpectedBlock(block.expr))
         ELSE ExprOk(block.p, FuncDecl(fname, params, rtype, block.expr))

\* Parser::parse_func
parse_func(p, tk) ==
    LET p1 == create_step(p, tk, "parse_func")
        fname == expect(p1, StrKind("Identifier", <<>>))
    IN
    IF ~fname.ok THEN ExprErr(fname.p, fname.err)
    ELSE
    LET open == expect(fname.p, Kind("OpenParen")) IN
    IF ~open.ok THEN ExprErr(open.p, open.err)
    ELSE
    LET pl == ParamLoop(open.p, <<>>) IN
    IF ~pl.ok THEN ExprErr(pl.p, pl.err)
    ELSE
    LET h == FuncHead(pl.p) IN
    IF ~h.ok THEN ExprErr(h.p, h.err)
    ELSE FuncBody(parse(h.p), fname.tok.kind.s, pl.params, h.rtype, h.expect_block)

\* Parser::parse_secondary
parse_secondary(p, tk) ==
    parse_additive(create_step(p, tk, "parse_secondary"), tk)

\* The loop body of parse_block after `self.parse()`. An EndedTokens from
\* expect is not the WrongToken the `if let` looks for: the loop goes on.
BlockStep(e, exprs) ==
    IF ~e.ok THEN e
    ELSE
    LET exprs2 == Append(exprs, e.expr)
        semi == expect(e.p, Kind("SemiColon"))
    IN
    IF ~semi.ok /\ semi.err.kind = "WrongToken"
    THEN IF semi.err.token.kind = Kind("CloseBrace")
         THEN ExprOk(semi.p, Block(exprs2))
         ELSE ExprErr(semi.p, semi.err)
    ELSE IF PeekIs(semi.p, "CloseBrace")
         THEN ExprOk(eat(semi.p).p, Block(exprs2))
         ELSE BlockLoop(semi.p, exprs2)

\* The loop of parse_block.
BlockLoop(p, exprs) == BlockStep(parse(p), exprs)

\* Parser::parse_block: self.peek().unwrap() panics on an empty queue.
parse_block(p) ==
    IF ~HasPeek(p) THEN ExprErr(p, Abort)
    ELSE BlockLoop(create_step(p, peek(p), "parse_block"), <<>>)

\* parse_additive after a call of parse_multiplicative: the `?`, then the
\* loop with the new left operand.
AdditiveStep(operand, left, operator) ==
    IF ~operand.ok THEN operand
    ELSE AdditiveLoop(operand.p,
                      IF operator = "" THEN operand.expr
                      ELSE BinExpr(left, operand.expr, operator))

\* A loop that takes all four operators at one level, left to right.
AdditiveLoopFlat(p, left) ==
    IF ~HasPeek(p) THEN ExprOk(p, left)
    ELSE IF peek(p).kind.tag = "Operator"
         THEN LET tk == eat(eat(p).p) IN
              IF ~tk.ok THEN ExprErr(tk.p, tk.err)
              ELSE AdditiveStep(parse_primary(tk.p, tk.tok), left,
                                peek(p).kind.op)
         ELSE ExprOk(p, left)

\* The loop of parse_additive.
AdditiveLoop(p, left) ==
    IF ~HasPeek(p) THEN ExprOk(p, left)
    ELSE IF peek(p).kind \in {OpKind("Plus"), OpKind("Minus")}
         THEN LET tk == eat(eat(p).p) IN
              IF ~tk.ok THEN ExprErr(tk.p, tk.err)
              ELSE AdditiveStep(parse_multiplicative(tk.p, tk.tok), left,
                                peek(p).kind.op)
         ELSE ExprOk(p, left)

\* Parser::parse_additive
parse_additive(p, tk) ==
    AdditiveStep(parse_multiplicative(create_step(p, tk, "parse_additive"), tk),
                 NoExpr, "")

\* parse_multiplicative after a call of parse_primary.
MultiplicativeStep(operand, left, operator) ==
    IF ~operand.ok THEN operand
    ELSE MultiplicativeLoop(operand.p,
                            IF operator = "" THEN operand.expr
                            ELSE BinExpr(left, operand.expr, operator))

\* The loop of parse_multiplicative.
MultiplicativeLoop(p, left) ==
    IF ~HasPeek(p) THEN ExprOk(p, left)
    ELSE IF peek(p).kind \in {OpKind("Star"), OpKind("Bar")}
         THEN LET tk == eat(eat(p).p) IN
              IF ~tk.ok THEN ExprErr(tk.p, tk.err)
              ELSE MultiplicativeStep(parse_primary(tk.p, tk.tok), left,
                                      peek(p).kind.op)
         ELSE ExprOk(p, left)

\* Parser::parse_multiplicative
parse_multiplicative(p, tk) ==
    MultiplicativeStep(parse_primary(create_step(p, tk, "parse_multiplicative"), tk),
                       NoExpr, "")

\* parse_let_expr after `self.parse()?`
LetBody(e, varname) ==
    IF ~e.ok THEN e ELSE ExprOk(e.p, LetDecl(varname, e.expr))

\* Parser::parse_let_expr: self.peek().unwrap() panics on an empty queue.
parse_let_expr(p) ==
    IF ~HasPeek(p) THEN ExprErr(p, Abort)
    ELSE
    LET p1 == create_step(p, peek(p), "parse_let_expr")
        varname == expect(p1, StrKind("Identifier", <<>>))
    IN
    IF ~varname.ok THEN ExprErr(varname.p, varname.err)
    ELSE
    LET eq == expect_exact(varname.p, OpKind("Eq")) IN
    IF ~eq.ok THEN ExprErr(eq.p, eq.err)
    ELSE LetBody(parse(eq.p), varname.tok.kind.s)

\* parse_primary, the Minus arm after `self.parse()?`
NegativeOf(e) ==
    IF ~e.ok THEN e ELSE ExprOk(e.p, Negative(e.expr))

\* parse_primary, the OpenParen arm after `self.parse()?`
ParenClose(r) ==
    IF ~r.ok THEN r
    ELSE LET close == expect(r.p, Kind("CloseParen")) IN
         IF ~close.ok THEN ExprErr(close.p, close.err)
         ELSE ExprOk(close.p, r.expr)

\* Parser::parse_primary
parse_primary(p, token) ==
    LET p1 == create_step(p, token, "parse_primary") IN
    CASE token.kind.tag = "Identifier" -> ExprOk(p1, Identifier(token.kind.s))
      [] token.kind.tag = "IntLit" -> ExprOk(p1, IntLit(token.kind.s))
      [] token.kind.tag = "FloatLit" -> ExprOk(p1, FloatLit(token.kind.s))
      [] token.kind = OpKind("Minus") -> NegativeOf(parse(p1))
      [] token.kind.tag = "OpenParen" -> ParenClose(parse(p1))
      [] token.kind.tag = "OpenBrace" -> parse_block(p1)
      [] OTHER -> ExprErr(p1, UnexpectedToken(token))

\* The loop of parse_tokens. A function declaration with a Block body
\* `continue`s past the backtrace.clear() at the end of the loop body.
RECURSIVE TopLoop(_, _)

\* A loop body that lets every function declaration end without `;`.
TopStepAnyFunc(e, expressions) ==
    IF ~e.ok THEN e
    ELSE IF e.expr.tag = "FuncDecl"
         THEN TopLoop(e.p, Append(expressions, e.expr))
         ELSE LET semi == expect(e.p, Kind("SemiColon")) IN
              IF ~semi.ok THEN ExprErr(semi.p, semi.err)
              ELSE TopLoop([semi.p EXCEPT !.backtrace = <<>>],
                           Append(expressions, e.expr))

\* The loop body of parse_tokens after `self.parse()`.
TopStep(e, expressions) ==
    IF ~e.ok THEN e
    ELSE IF e.expr.tag = "FuncDecl" /\ e.expr.block.tag = "Block"
         THEN TopLoop(e.p, Append(expressions, e.expr))
         ELSE LET semi == expect(e.p, Kind("SemiColon")) IN
              IF ~semi.ok THEN ExprErr(semi.p, semi.err)
              ELSE TopLoop([semi.p EXCEPT !.backtrace = <<>>],
                           Append(expressions, e.expr))

TopLoop(p, expressions) ==
    IF ~HasPeek(p) \/ peek(p).kind.tag = "Eof"
    THEN ExprOk(p, Program(expressions))
    ELSE TopStep(parse(p), expressions)

\* The call of the loop from parse_tokens, and what the caller is left with.
RunTopLoop(r) ==
    [ok |-> r.ok, err |-> r.err, p |-> r.p, expr |-> r.expr, tokens |-> <<>>]

\* A variant of parse_tokens without the InQueueParsing guard.
parse_tokens_unguarded(p, tokens) ==
    RunTopLoop(TopLoop([p EXCEPT !.tokens = @ \o tokens], <<>>))

\* Parser::parse_tokens(&mut self, tokens: &mut VecDeque<Token>): `tokens`
\* of the result is what the call leaves in the caller's queue.
parse_tokens(p, tokens) ==
    IF Len(p.tokens) > 0
    THEN [ok |-> FALSE, err |-> InQueueParsing, p |-> p, expr |-> NoExpr,
          tokens |-> tokens]
    ELSE RunTopLoop(TopLoop([p EXCEPT !.tokens = @ \o tokens], <<>>))


\* Bounds: a token input is the concatenation of at most MaxPhrases
\* phrases; a parser instance is called at most MaxCalls times.
MaxPhrases == 3
MaxCalls == 2

KIdent(s) == StrKind("Identifier", s)
KInt(s) == StrKind("IntLit", s)

Phrases ==
    { <<Kind("Let")>>, <<KIdent(<<"x">>)>>, <<OpKind("Eq")>>, <<KInt(<<"1">>)>>,
      <<Kind("SemiColon")>>, <<OpKind("Plus")>>, <<OpKind("Star")>>,
      <<OpKind("Minus")>>, <<Kind("OpenParen")>>, <<Kind("CloseParen")>>,
      <<Kind("OpenBrace")>>, <<Kind("CloseBrace")>>, <<Kind("Eof")>>,
      <<Kind("Let"), KIdent(<<"x">>), OpKind("Eq")>>,
      <<Kind("Func"), KIdent(<<"f">>), Kind("OpenParen"), Kind("CloseParen")>>,
      <<Kind("Colon"), KIdent(<<"i", "n", "t", "3", "2">>)>> }

RECURSIVE KindSeqs(_)
KindSeqs(n) ==
    IF n = 0 THEN { <<>> }
    ELSE LET shorter == KindSeqs(n - 1) IN
         shorter \cup { s \o ph : s \in shorter, ph \in Phrases }

\* The tokens of a sequence of kinds, on line 1, one column each.
MkTokens(kinds) ==
    [i \in 1..Len(kinds) |-> [kind |-> kinds[i], line |-> 1, column |-> i]]

\* Bound: a statement list has at most MaxStmts statements.
MaxStmts == 2

RECURSIVE SeqsUpTo(_, _)
SeqsUpTo(S, n) ==
    IF n = 0 THEN { <<>> }
    ELSE LET shorter == SeqsUpTo(S, n - 1) IN
         shorter \cup { Append(s, e) : s \in shorter, e \in S }

\* Statement forms: the token kinds of a statement and the expression the
\* grammar gives it.
StmtForms ==
    { [kinds |-> <<KIdent(<<"x">>)>>, expr |-> Identifier(<<"x">>)],
      [kinds |-> <<Kind("Let"), KIdent(<<"x">>), OpKind("Eq"), KInt(<<"1">>)>>,
       expr |-> LetDecl(<<"x">>, IntLit(<<"1">>))],
      [kinds |-> <<Kind("Func"), KIdent(<<"f">>), Kind("OpenParen"),
                   Kind("CloseParen"), Kind("OpenBrace"), KIdent(<<"x">>),
                   Kind("CloseBrace")>>,
       expr |-> FuncDecl(<<"f">>, <<>>, <<>>, Block(<<Identifier(<<"x">>)>>))],
      [kinds |-> <<Kind("Func"), KIdent(<<"f">>), Kind("OpenParen"),
                   Kind("CloseParen"), OpKind("Eq"), KIdent(<<"x">>)>>,
       expr |-> FuncDecl(<<"f">>, <<>>, <<>>, Identifier(<<"x">>))],
      [kinds |-> <<Kind("OpenBrace"), KIdent(<<"x">>), Kind("CloseBrace")>>,
       expr |-> Block(<<Identifier(<<"x">>)>>)] }

\* A statement of a list, followed by `;` or not.
Units == [form : StmtForms, semi : BOOLEAN]
UnitSeqs == SeqsUpTo(Units, MaxStmts)
RECURSIVE UnitKinds(_)
UnitKinds(us) ==
    IF us = <<>> THEN <<>>
    ELSE Head(us).form.kinds
            \o (IF Head(us).semi THEN <<Kind("SemiColon")>> ELSE <<>>)
            \o UnitKinds(Tail(us))
StmtInputs == { MkTokens(UnitKinds(us)) : us \in UnitSeqs }

\* Complete statements none of whose proper prefixes is complete, and
\* their proper prefixes: inputs that end where one more token is required.
FullStmts ==
    { <<Kind("Let"), KIdent(<<"x">>), OpKind("Eq"), KInt(<<"1">>),
        OpKind("Plus"), KInt(<<"2">>), Kind("SemiColon")>>,
      <<Kind("Func"), KIdent(<<"f">>), Kind("OpenParen"), KIdent(<<"a">>),
        Kind("Colon"), KIdent(<<"int32">>), Kind("CloseParen"), Kind("Colon"),
        KIdent(<<"int32">>), Kind("OpenBrace"), KIdent(<<"x">>),
        Kind("SemiColon"), Kind("CloseBrace")>>,
      <<Kind("OpenBrace"), KIdent(<<"x">>), Kind("SemiColon"),
        Kind("CloseBrace"), Kind("SemiColon")>>,
      <<Kind("OpenParen"), KIdent(<<"x">>), Kind("CloseParen"),
        Kind("SemiColon")>>,
      <<OpKind("Minus"), KIdent(<<"x">>), Kind("SemiColon")>> }
TruncInputs ==
    UNION { { MkTokens(SubSeq(ks, 1, n)) : n \in 1..(Len(ks) - 1) } :
            ks \in FullStmts }

\* let statements `let a b 5 ;` with any of these tokens for a and for b.
LetSlots ==
    { KIdent(<<"x">>), KInt(<<"5">>), OpKind("Eq"), OpKind("Plus"),
      Kind("Colon"), Kind("OpenParen") }
LetInputs ==
    { MkTokens(<<Kind("Let"), a, b, KInt(<<"5">>), Kind("SemiColon")>>) :
        a \in LetSlots, b \in LetSlots }

\* Bound: an operator chain has at most MaxOps binary operators.
MaxOps == 2

\* Operator chains `a op b op c ... ;` over the four binary operators.
ChainOps == {"Plus", "Minus", "Star", "Bar"}
ChainNames == <<<<"a">>, <<"b">>, <<"c">>, <<"d">>, <<"e">>>>
ChainKinds(ops) ==
    [i \in 1..(2 * Len(ops) + 2) |->
        IF i = 2 * Len(ops) + 2 THEN Kind("SemiColon")
        ELSE IF i % 2 = 1 THEN KIdent(ChainNames[(i + 1) \div 2])
        ELSE OpKind(ops[i \div 2])]
ChainInputs == { MkTokens(ChainKinds(ops)) : ops \in SeqsUpTo(ChainOps, MaxOps) }

\* Statements and function declarations with an empty pair of braces.
BraceInputs ==
    { MkTokens(ks) : ks \in
        { <<Kind("OpenBrace"), Kind("CloseBrace"), Kind("SemiColon")>>,
          <<Kind("Let"), KIdent(<<"x">>), OpKind("Eq"), Kind("OpenBrace"),
            Kind("CloseBrace"), Kind("SemiColon")>>,
          <<Kind("Func"), KIdent(<<"g">>), Kind("OpenParen"),
            Kind("CloseParen"), Kind("Colon"), KIdent(<<"int32">>),
            Kind("OpenBrace"), Kind("CloseBrace")>>,
          <<Kind("Func"), KIdent(<<"g">>), Kind("OpenParen"),
            Kind("CloseParen"), Kind("OpenBrace"), Kind("CloseBrace")>> } }

\* Statements with a parenthesized group or a braced block as an operand,
\* and the expression the grammar gives them.
GroupForms ==
    { [kinds |-> <<Kind("OpenParen"), KIdent(<<"a">>), OpKind("Plus"),
                   KIdent(<<"b">>), Kind("CloseParen"), OpKind("Star"),
                   KIdent(<<"c">>), Kind("SemiColon")>>,
       expr |-> BinExpr(BinExpr(Identifier(<<"a">>), Identifier(<<"b">>), "Plus"),
                        Identifier(<<"c">>), "Star")],
      [kinds |-> <<Kind("Let"), KIdent(<<"x">>), OpKind("Eq"),
                   Kind("OpenParen"), KInt(<<"1">>), Kind("CloseParen"),
                   OpKind("Plus"), KInt(<<"2">>), Kind("SemiColon")>>,
       expr |-> LetDecl(<<"x">>, BinExpr(IntLit(<<"1">>), IntLit(<<"2">>), "Plus"))],
      [kinds |-> <<KIdent(<<"c">>), OpKind("Star"), Kind("OpenParen"),
                   KIdent(<<"a">>), OpKind("Plus"), KIdent(<<"b">>),
                   Kind("CloseParen"), Kind("SemiColon")>>,
       expr |-> BinExpr(Identifier(<<"c">>),
                        BinExpr(Identifier(<<"a">>), Identifier(<<"b">>), "Plus"),
                        "Star")],
      [kinds |-> <<Kind("OpenBrace"), KIdent(<<"a">>), Kind("CloseBrace"),
                   OpKind("Plus"), KIdent(<<"b">>), Kind("SemiColon")>>,
       expr |-> BinExpr(Block(<<Identifier(<<"a">>)>>), Identifier(<<"b">>),
                        "Plus")] }
GroupInputs == { MkTokens(form.kinds) : form \in GroupForms }

ParserInputs ==
    { MkTokens(ks) : ks \in KindSeqs(MaxPhrases) }
        \cup StmtInputs \cup TruncInputs \cup LetInputs \cup ChainInputs
        \cup BraceInputs \cup GroupInputs

\* What a caller hands to an instance that has been used before.
RefillInputs ==
    { MkTokens(<<>>),
      MkTokens(<<KInt(<<"1">>)>>),
      MkTokens(<<KIdent(<<"x">>), Kind("SemiColon")>>) }

\* The result of a call as the caller sees it.
PRes(r) == [ok |-> r.ok, err |-> r.err, expr |-> r.expr]
PNoRes == [ok |-> FALSE, err |-> NoErr, expr |-> NoExpr]

ParFrame == UNCHANGED <<lexvars, semvars, genvars>>

ParInit ==
    /\ parser = ParserNew
    /\ caller \in ParserInputs
    /\ pres = PNoRes
    /\ pcalls = 0
    /\ pfed = FALSE
    /\ LexIdle
    /\ SemIdle
    /\ GenIdle

\* A panic has ended the program: nothing is called after it.
ParAlive == pres.err.kind # "Abort"

\* What a call of parse_tokens leaves behind.
Returned(r) ==
    /\ parser' = r.p
    /\ caller' = r.tokens
    /\ pres' = PRes(r)

\* parser.parse_tokens(&mut caller)
ParseTokens ==
    /\ ParAlive
    /\ pcalls < MaxCalls
    /\ Returned(parse_tokens(parser, caller))
    /\ pcalls' = pcalls + 1
    /\ pfed' = (pfed \/ caller # <<>>)
    /\ ParFrame

\* The caller fills its queue again to use the same instance once more.
CallerRefill ==
    /\ ParAlive
    /\ pcalls >= 1
    /\ pcalls < MaxCalls
    /\ \E input \in RefillInputs :
          /\ input # caller
          /\ caller' = input
    /\ UNCHANGED <<parser, pres, pcalls, pfed>>
    /\ ParFrame

ParNext == ParseTokens \/ CallerRefill

SpecParse == ParInit /\ [][ParNext]_vars


(***************************************************************************)
(*                        PARSER: the claim C10                            *)
(***************************************************************************)

\* A step that is a call of parse_tokens.
IsParseCall == pcalls' = pcalls + 1

\* C10 as stated: once parse_tokens has been called with a non-empty input,
\* every later call fails with InQueueParsing and leaves the caller's queue
\* and the parser's queue as they were.
C10_SingleUse ==
    [][ (pfed /\ IsParseCall) =>
        (/\ pres'.err.kind = "InQueueParsing"
         /\ parser' = parser
         /\ caller' = caller)
      ]_vars

\* C10 as amended: a call of parse_tokens fails with InQueueParsing exactly
\* when the parser's own queue is not empty at the call, and then leaves
\* the caller's queue and the parser (queue and backtrace) unchanged;
\* otherwise it takes the whole input from the caller. A call that returns
\* Ok leaves the parser's queue empty or stopped at an Eof token, so that
\* only a failed call or an Eof token makes the instance refuse later calls.
C10_QueueGuard ==
    [][ IsParseCall =>
        (/\ parser.tokens # <<>> =>
               (/\ pres'.err.kind = "InQueueParsing"
                /\ parser' = parser
                /\ caller' = caller)
         /\ parser.tokens = <<>> =>
               (/\ pres'.err.kind # "InQueueParsing"
                /\ caller' = <<>>)
         /\ pres'.ok =>
               (\/ parser'.tokens = <<>>
                \/ Head(parser'.tokens).kind.tag = "Eof"))
      ]_vars

\* A second call with a non-empty input has been refused: the first call
\* had failed and left tokens in the parser's queue.
C10_Witness ==
    /\ pcalls = 2
    /\ pfed
    /\ pres.err.kind = "InQueueParsing"
    /\ parser.tokens # <<>>
    /\ parser.backtrace # <<>>
    /\ caller # <<>>


(***************************************************************************)
(*                   PARSER: the claims C11 to C14, C17 to C20             *)
(***************************************************************************)

\* A step that is the first call of parse_tokens on a new parser; `caller`
\* is the input of the call.
IsFirstCall == IsParseCall /\ pcalls = 0

\* The statement ends itself: a function declaration with a Block body.
SelfTerminated(form) ==
    form.expr.tag = "FuncDecl" /\ form.expr.block.tag = "Block"

\* What the call must return for the statement list us. A `;` after a
\* function declaration with a Block body is outside the claim.
StmtOutcome(us) ==
    LET odd == { i \in 1..Len(us) : SelfTerminated(us[i].form) = us[i].semi } IN
    IF odd = {}
    THEN /\ pres'.ok
         /\ pres'.expr = Program([i \in 1..Len(us) |-> us[i].form.expr])
    ELSE LET k == CHOOSE i \in odd : \A j \in odd : i <= j IN
         us[k].semi \/
            /\ ~pres'.ok
            /\ IF k = Len(us) THEN pres'.err = EndedTokens
               ELSE /\ pres'.err.kind = "WrongToken"
                    /\ pres'.err.expected = Kind("SemiColon")
                    /\ pres'.err.received = Head(us[k + 1].form.kinds)

\* C11: at top level a statement other than a function declaration with a
\* Block body must be followed at once by `;`, else parse_tokens fails with
\* WrongToken, or with EndedTokens at the end of the input; a function
\* declaration with a Block body is followed directly by the next statement;
\* on success the Program holds the statements in source order.
C11_Terminators ==
    [][ (IsFirstCall /\ caller \in StmtInputs) =>
        StmtOutcome(CHOOSE us \in UnitSeqs : MkTokens(UnitKinds(us)) = caller)
      ]_vars

C11_Witness ==
    /\ pcalls = 1
    /\ pres.ok
    /\ pres.expr = Program(<<FuncDecl(<<"f">>, <<>>, <<>>,
                                      Block(<<Identifier(<<"x">>)>>)),
                             LetDecl(<<"x">>, IntLit(<<"1">>))>>)

\* C12: after a parse_tokens call that succeeds the backtrace is empty,
\* whatever the statements were, a function declaration with a Block body
\* included.
C12_BacktraceCleared ==
    [][ (IsFirstCall /\ pres'.ok) => parser'.backtrace = <<>> ]_vars

\* C13: a token sequence that ends where the grammar requires one more
\* token (after `let`, after `{`, after a binary operator, inside a
\* parameter list, before the final `;`) makes parse_tokens return
\* EndedTokens.
C13_EndedTokens ==
    [][ (IsFirstCall /\ caller \in TruncInputs) => pres'.err = EndedTokens ]_vars

\* C14: a let statement whose second token is not an identifier, as in
\* `let 5 = 5;`, fails with WrongToken: expected Identifier, received the
\* kind of that token; the backtrace is then not empty and holds the steps
\* of the let statement: parse, parse_let_expr and the failed expect.
C14_LetWantsName ==
    [][ (IsFirstCall /\ caller \in LetInputs
            /\ caller[2].kind.tag # "Identifier") =>
          /\ ~pres'.ok
          /\ pres'.err = WrongToken(StrKind("Identifier", <<>>), caller[2])
          /\ pres'.err.received = caller[2].kind
          /\ parser'.backtrace =
                <<[fname |-> "parse", token |-> caller[1]],
                  [fname |-> "parse_let_expr", token |-> caller[2]],
                  [fname |-> "expect", token |-> caller[2]]>>
      ]_vars

\* `let 5 = 5;` has failed.
C14_Witness ==
    /\ pcalls = 1
    /\ ~pres.ok
    /\ pres.err.kind = "WrongToken"
    /\ pres.err.expected.tag = "Identifier"
    /\ pres.err.received = KInt(<<"5">>)
    /\ pres.err.token.column = 2
    /\ Len(parser.backtrace) = 3
    /\ parser.backtrace[1].token.kind = Kind("Let")
    /\ Len(parser.tokens) = 3
    /\ parser.tokens[1].kind = OpKind("Eq")
    /\ parser.tokens[2].kind = KInt(<<"5">>)

\* C18: a let statement `let IDENT t expr` whose token t after the name is
\* not `=` fails with WrongToken: expected `=`, received the kind of t.
C18_LetWantsEq ==
    [][ (IsFirstCall /\ caller \in LetInputs
            /\ caller[2].kind.tag = "Identifier"
            /\ caller[3].kind # OpKind("Eq")) =>
          /\ ~pres'.ok
          /\ pres'.err.kind = "WrongToken"
          /\ pres'.err.expected = OpKind("Eq")
          /\ pres'.err.received = caller[3].kind
      ]_vars

\* The tree of the operands lo..hi of a chain: it splits at the rightmost
\* `+` or `-` if there is one, and else at the rightmost operator.
RECURSIVE ChainTree(_, _, _)
ChainTree(ops, lo, hi) ==
    IF lo = hi THEN Identifier(ChainNames[lo])
    ELSE LET additive == { i \in lo..(hi - 1) : ops[i] \in {"Plus", "Minus"} }
             k == IF additive = {} THEN hi - 1
                  ELSE CHOOSE i \in additive : \A j \in additive : j <= i
         IN  BinExpr(ChainTree(ops, lo, k), ChainTree(ops, k + 1, hi), ops[k])

\* C17: `*` and `/` bind tighter than `+` and `-`, and operators of one
\* level associate to the left: `a + b * c` is BinExpr(a, +, BinExpr(b, *, c)),
\* `a * b + c` is BinExpr(BinExpr(a, *, b), +, c) and `a - b - c` is
\* BinExpr(BinExpr(a, -, b), -, c).
C17_Precedence ==
    [][ (IsFirstCall /\ caller \in ChainInputs) =>
        LET ops == CHOOSE o \in SeqsUpTo(ChainOps, MaxOps) :
                       MkTokens(ChainKinds(o)) = caller
        IN  /\ pres'.ok
            /\ pres'.expr = Program(<<ChainTree(ops, 1, Len(ops) + 1)>>)
      ]_vars

\* `a + b * c;` has been parsed.
C17_Witness ==
    /\ pcalls = 1
    /\ pres.ok
    /\ pres.expr = Program(<<BinExpr(Identifier(<<"a">>),
                                     BinExpr(Identifier(<<"b">>),
                                             Identifier(<<"c">>), "Star"),
                                     "Plus")>>)

\* C19: an empty pair of braces parses to Block([]), as an expression and
\* as a function body: `func g(): int32 { }` parses to a FuncDecl whose
\* block is the empty Block.
C19_EmptyBraces ==
    [][ (IsFirstCall /\ caller \in BraceInputs) =>
          /\ pres'.ok
          /\ \/ pres'.expr = Program(<<Block(<<>>)>>)
             \/ pres'.expr = Program(<<LetDecl(<<"x">>, Block(<<>>))>>)
             \/ pres'.expr = Program(<<FuncDecl(<<"g">>, <<>>, <<<<"int32">>>>,
                                                Block(<<>>))>>)
             \/ pres'.expr = Program(<<FuncDecl(<<"g">>, <<>>, <<>>,
                                                Block(<<>>))>>)
      ]_vars

\* C20: a parenthesized group or a braced block is a primary operand in
\* every position, the first included: `(a + b) * c;` and
\* `let x = (1) + 2;` parse to a BinExpr whose left operand is the group.
C20_GroupOperand ==
    [][ (IsFirstCall /\ caller \in GroupInputs) =>
        LET form == CHOOSE f \in GroupForms : MkTokens(f.kinds) = caller
        IN  /\ pres'.ok
            /\ pres'.expr = Program(<<form.expr>>)
      ]_vars

(***************************************************************************)
(*                          SEMANTIC ANALYZER                              *)
(***************************************************************************)

\* SemanticType; equality is structural (derive(PartialEq)).
Int32 == [tag |-> "Int32"]
Float32 == [tag |-> "Float32"]
Void == [tag |-> "Void"]
FnType(params, rtype) == [tag |-> "FnType", params |-> params, rtype |-> rtype]
NoType == [tag |-> "None"]

\* SemanticError
SErr(kind, name, a, b) == [kind |-> kind, name |-> name, a |-> a, b |-> b]
NoSErr == SErr("", <<>>, NoType, NoType)
UndeclaredVariable(name) == SErr("UndeclaredVariable", name, NoType, NoType)
UnrecognizedType(s) == SErr("UnrecognizedType", s, NoType, NoType)
FunctionRedeclare(name) == SErr("FunctionRedeclare", name, NoType, NoType)
ProgramAnalysis == SErr("ProgramAnalysis", <<>>, NoType, NoType)
InvalidBinExpr(lhs_type, rhs_type) == SErr("InvalidBinExpr", <<>>, lhs_type, rhs_type)
InvalidFnType(return_type, block_type) ==
    SErr("InvalidFnType", <<>>, return_type, block_type)

\* HashMap<String, _>: a function on the set of its keys.
ContainsKey(map, k) == k \in DOMAIN map
MapInsert(map, k, val) ==
    [j \in DOMAIN map \cup {k} |-> IF j = k THEN val ELSE map[j]]
MapRemove(map, k) == [j \in DOMAIN map \ {k} |-> map[j]]

\* SemanticAnalayzer::new
AnalyzerNew == <<>>

\* Result<SemanticType, SemanticError> of a call, with the symbol table v
\* the call leaves behind.
SemOk(v, ty) == [ok |-> TRUE, err |-> NoSErr, ty |-> ty, v |-> v]
SemErr(v, err) == [ok |-> FALSE, err |-> err, ty |-> NoType, v |-> v]

\* The type names of the language.
S_int32 == <<"i", "n", "t", "3", "2">>
S_f32 == <<"f", "3", "2">>
S_void == <<"v", "o", "i", "d">>

\* SemanticAnalayzer::get_type(s: Option<&str>)
get_type(s) ==
    IF s = <<>> THEN [ok |-> TRUE, err |-> NoSErr, ty |-> Void]
    ELSE CASE s[1] = S_int32 -> [ok |-> TRUE, err |-> NoSErr, ty |-> Int32]
           [] s[1] = S_f32   -> [ok |-> TRUE, err |-> NoSErr, ty |-> Float32]
           [] s[1] = S_void  -> [ok |-> TRUE, err |-> NoSErr, ty |-> Void]
           [] OTHER          -> [ok |-> FALSE, err |-> UnrecognizedType(s[1]),
                                 ty |-> NoType]

\* SemanticAnalayzer::delete_var
delete_var(v, varname) == MapRemove(v, varname)

\* SemanticAnalayzer::analyze_var
analyze_var(v, varname) ==
    IF ContainsKey(v, varname) THEN SemOk(v, v[varname])
    ELSE SemErr(v, UndeclaredVariable(varname))

\* The parameter loop of the FuncDecl arm of analyze_expr.
RECURSIVE ParamTypes(_, _)
ParamTypes(params, parameters) ==
    IF params = <<>> THEN [ok |-> TRUE, err |-> NoSErr, parameters |-> parameters]
    ELSE LET ty == get_type(<<Head(params).kind>>) IN
         IF ~ty.ok THEN [ok |-> FALSE, err |-> ty.err, parameters |-> parameters]
         ELSE ParamTypes(Tail(params), Append(parameters, ty.ty))

RECURSIVE analyze_expr(_, _)
RECURSIVE analyze_binexpr(_, _, _)
RECURSIVE create_var(_, _, _)
RECURSIVE AnalyzeEach(_, _)

\* A create_var whose insert leaves an existing binding of the name alone.
CreateVarKeepOld(r, varname) ==
    IF ~r.ok THEN [ok |-> FALSE, err |-> r.err, ty |-> NoType, v |-> r.v, old |-> <<>>]
    ELSE [ok |-> TRUE, err |-> NoSErr, ty |-> r.ty,
          v |-> IF ContainsKey(r.v, varname) THEN r.v
                ELSE MapInsert(r.v, varname, r.ty),
          old |-> IF ContainsKey(r.v, varname) THEN <<r.v[varname]>> ELSE <<>>]

\* create_var after `self.analyze_expr(expr)?` returned r: the insert. old is
\* the Option<SemanticType> that HashMap::insert returns.
CreateVarInsert(r, varname) ==
    IF ~r.ok THEN [ok |-> FALSE, err |-> r.err, ty |-> NoType, v |-> r.v, old |-> <<>>]
    ELSE [ok |-> TRUE, err |-> NoSErr, ty |-> r.ty,
          v |-> MapInsert(r.v, varname, r.ty),
          old |-> IF ContainsKey(r.v, varname) THEN <<r.v[varname]>> ELSE <<>>]

\* SemanticAnalayzer::create_var
create_var(v, varname, expr) == CreateVarInsert(analyze_expr(v, expr), varname)

\* `self.create_var(varname, expr)?.0` of the LetDecl arm.
StypeOf(c) == [ok |-> c.ok, err |-> c.err, ty |-> c.ty, v |-> c.v]

\* A comparison of operand types that promotes Int32 to Float32.
BinComparePromote(lhs, r) ==
    IF ~r.ok THEN r
    ELSE IF lhs = r.ty THEN SemOk(r.v, lhs)
    ELSE IF {lhs, r.ty} = {Int32, Float32} THEN SemOk(r.v, Float32)
    ELSE SemErr(r.v, InvalidBinExpr(lhs, r.ty))

\* analyze_binexpr after both operands: lhs is the type of the left one, r
\* the result of `self.analyze_expr(rhs)`.
BinCompare(lhs, r) ==
    IF ~r.ok THEN r
    ELSE IF lhs = r.ty THEN SemOk(r.v, lhs)
    ELSE SemErr(r.v, InvalidBinExpr(lhs, r.ty))

\* analyze_binexpr after `self.analyze_expr(lhs)?` returned l.
BinRhs(l, rhs) ==
    IF ~l.ok THEN l ELSE BinCompare(l.ty, analyze_expr(l.v, rhs))

\* SemanticAnalayzer::analyze_binexpr
analyze_binexpr(v, lhs, rhs) == BinRhs(analyze_expr(v, lhs), rhs)

\* The Block arm after one element returned r: the elements left.
EachNext(r, rest) ==
    IF ~r.ok \/ rest = <<>> THEN r ELSE AnalyzeEach(r.v, rest)

\* The Block arm on a non-empty Vec: `rest` in order, then `last`.
AnalyzeEach(v, exprs) == EachNext(analyze_expr(v, Head(exprs)), Tail(exprs))

\* The type the Block arm gives an empty Vec.
EmptyBlockVoid == Void
EmptyBlockType == Int32

\* A FuncDecl arm that binds the name again without an error.
FuncCheckRebind(b, rtype, identifier, params) ==
    IF ~b.ok THEN b
    ELSE IF b.ty = rtype
    THEN LET ps == ParamTypes(params, <<>>) IN
         IF ~ps.ok THEN SemErr(b.v, ps.err)
         ELSE SemOk(MapInsert(b.v, identifier, FnType(ps.parameters, rtype)),
                    FnType(ps.parameters, rtype))
    ELSE SemErr(b.v, InvalidFnType(rtype, b.ty))

\* A FuncDecl arm that checks the name before it inserts, and inserts only a
\* name that is free.
FuncCheckFirst(b, rtype, identifier, params) ==
    IF ~b.ok THEN b
    ELSE IF b.ty = rtype
    THEN LET ps == ParamTypes(params, <<>>) IN
         IF ~ps.ok THEN SemErr(b.v, ps.err)
         ELSE IF ContainsKey(b.v, identifier)
              THEN SemErr(b.v, FunctionRedeclare(identifier))
              ELSE SemOk(MapInsert(b.v, identifier, FnType(ps.parameters, rtype)),
                         FnType(ps.parameters, rtype))
    ELSE SemErr(b.v, InvalidFnType(rtype, b.ty))

\* The FuncDecl arm after `self.analyze_expr(block)` returned b.
FuncCheck(b, rtype, identifier, params) ==
    IF ~b.ok THEN b
    ELSE IF b.ty = rtype
    THEN LET ps == ParamTypes(params, <<>>) IN
         IF ~ps.ok THEN SemErr(b.v, ps.err)
         ELSE IF ContainsKey(b.v, identifier)
              THEN SemErr(MapInsert(b.v, identifier, FnType(ps.parameters, rtype)),
                          FunctionRedeclare(identifier))
              ELSE SemOk(MapInsert(b.v, identifier, FnType(ps.parameters, rtype)),
                         FnType(ps.parameters, rtype))
    ELSE SemErr(b.v, InvalidFnType(rtype, b.ty))

\* The FuncDecl arm after `Self::get_type(rtype.as_deref())` returned rtype.
FuncArm(v, expr, rtype) ==
    IF ~rtype.ok THEN SemErr(v, rtype.err)
    ELSE FuncCheck(analyze_expr(v, expr.block), rtype.ty, expr.identifier,
                   expr.params)

\* SemanticAnalayzer::analyze_expr
analyze_expr(v, expr) ==
    CASE expr.tag = "IntLit" -> SemOk(v, Int32)
      [] expr.tag = "FloatLit" -> SemOk(v, Float32)
      [] expr.tag = "LetDecl" -> StypeOf(create_var(v, expr.varname, expr.expr))
      [] expr.tag = "Identifier" -> analyze_var(v, expr.s)
      [] expr.tag = "Program" -> SemErr(v, ProgramAnalysis)
      [] expr.tag = "BinExpr" -> analyze_binexpr(v, expr.lhs, expr.rhs)
      [] expr.tag = "Negative" -> analyze_expr(v, expr.expr)
      [] expr.tag = "Block" ->
            IF expr.exprs = <<>> THEN SemOk(v, EmptyBlockType)
            ELSE AnalyzeEach(v, expr.exprs)
      [] expr.tag = "FuncDecl" -> FuncArm(v, expr, get_type(expr.rtype))


(***************************************************************************)
(* The analyzer through its public interface: a caller holds one          *)
(* SemanticAnalayzer and calls analyze_expr on one expression after       *)
(* another.  An error is a returned value; the table stays as the failed  *)
(* call left it.                                                          *)
(***************************************************************************)

\* Bound: a Block of the expressions analyzed has at most MaxBlockLen elements.
MaxBlockLen == 2

N_x == <<"x">>
N_y == <<"y">>
N_a == <<"a">>
S_int == <<"i", "n", "t">>
I1 == IntLit(<<"1">>)
F2 == FloatLit(<<"2", ".", "0">>)
SemNames == {N_x, N_y}
Ops == {"Plus", "Minus", "Star", "Bar"}

Atoms == {I1, F2} \cup { Identifier(n) : n \in SemNames }
BinExprs ==
    { BinExpr(lhs, rhs, op) : lhs \in Atoms \ {F2}, rhs \in Atoms \ {F2}, op \in Ops }
LetDecls ==
    { LetDecl(n, e) : n \in SemNames,
                      e \in Atoms \cup {Block(<<>>), Negative(I1), LetDecl(N_y, I1)} }
BlockElems ==
    {I1, Identifier(N_x), LetDecl(N_x, I1), LetDecl(N_x, F2),
     LetDecl(N_y, Identifier(N_x))}
Blocks == { Block(exprs) : exprs \in SeqsUpTo(BlockElems, MaxBlockLen) }
ParamLists == { <<>>, <<Param(N_a, S_int32)>>, <<Param(N_a, S_int)>> }
ReturnTypes == { <<>>, <<S_int32>>, <<S_f32>>, <<S_void>>, <<S_int>> }
Bodies == {I1, F2, Identifier(N_a), Identifier(N_x), Block(<<>>)}
FuncDecls ==
    { FuncDecl(N_x, params, rtype, block) :
        params \in ParamLists, rtype \in ReturnTypes, block \in Bodies }
SemExprs ==
    Atoms \cup BinExprs \cup LetDecls \cup Blocks \cup FuncDecls
          \cup {Negative(Identifier(N_x)), Program(<<>>)}

\* Some FuncDecl node occurs in expr.
RECURSIVE HasFuncDecl(_)
HasFuncDecl(expr) ==
    CASE expr.tag = "FuncDecl" -> TRUE
      [] expr.tag = "LetDecl" -> HasFuncDecl(expr.expr)
      [] expr.tag = "Negative" -> HasFuncDecl(expr.expr)
      [] expr.tag = "BinExpr" -> HasFuncDecl(expr.lhs) \/ HasFuncDecl(expr.rhs)
      [] expr.tag \in {"Block", "Program"} ->
            \E i \in 1..Len(expr.exprs) : HasFuncDecl(expr.exprs[i])
      [] OTHER -> FALSE

\* The lets that the analysis of expr from table v completes, in the order
\* they complete, each with the type its initializer analyzed to.
RECURSIVE LetTrace(_, _)
RECURSIVE TraceEach(_, _)
TraceLet(r, inner, varname) ==
    IF r.ok THEN Append(inner, [name |-> varname, ty |-> r.ty]) ELSE inner
TraceNext(r, first, rest) ==
    IF r.ok THEN first \o TraceEach(r.v, rest) ELSE first
TraceEach(v, exprs) ==
    IF exprs = <<>> THEN <<>>
    ELSE TraceNext(analyze_expr(v, Head(exprs)), LetTrace(v, Head(exprs)),
                   Tail(exprs))
LetTrace(v, expr) ==
    CASE expr.tag = "LetDecl" ->
            TraceLet(analyze_expr(v, expr.expr), LetTrace(v, expr.expr),
                     expr.varname)
      [] expr.tag = "Negative" -> LetTrace(v, expr.expr)
      [] expr.tag = "BinExpr" -> TraceEach(v, <<expr.lhs, expr.rhs>>)
      [] expr.tag = "Block" -> TraceEach(v, expr.exprs)
      [] expr.tag = "FuncDecl" ->
            IF get_type(expr.rtype).ok THEN LetTrace(v, expr.block) ELSE <<>>
      [] OTHER -> <<>>

RECURSIVE ApplyTrace(_, _)
ApplyTrace(map, trace) ==
    IF trace = <<>> THEN map
    ELSE ApplyTrace(MapInsert(map, Head(trace).name, Head(trace).ty), Tail(trace))

SemFrame == UNCHANGED <<lexvars, parvars, genvars>>

SemInit ==
    /\ analyzer = AnalyzerNew
    /\ acall = [st |-> "idle"]
    /\ recent = <<>>
    /\ letsonly = TRUE
    /\ LexIdle
    /\ ParIdle
    /\ GenIdle

\* analyze_expr(expr) returned r to the caller.
AnalyzeReturned(expr, r, trace) ==
    /\ analyzer' = r.v
    /\ acall' = [st |-> "returned", expr |-> expr, v |-> analyzer,
                 ok |-> r.ok, err |-> r.err, ty |-> r.ty]
    /\ letsonly' = (letsonly /\ ~HasFuncDecl(expr))
    /\ recent' = IF letsonly' THEN ApplyTrace(recent, trace) ELSE <<>>

AnalyzeExpr(expr) ==
    /\ AnalyzeReturned(expr, analyze_expr(analyzer, expr), LetTrace(analyzer, expr))
    /\ SemFrame

SemNext == \E expr \in SemExprs : AnalyzeExpr(expr)

SpecSem == SemInit /\ [][SemNext]_vars


(***************************************************************************)
(* Claims about the analyzer                                               *)
(***************************************************************************)

AReturned == acall.st = "returned"

\* The Function type a declaration declares: its parameter types in order
\* and its return type.
DeclaredType(expr) ==
    FnType([i \in 1..Len(expr.params) |-> get_type(<<expr.params[i].kind>>).ty],
           get_type(expr.rtype).ty)

\* C1: analyzing a function declaration whose body refers to its own declared
\* parameter a, with a and the function name not bound before, succeeds and
\* binds the function name to Function{[Int32], Int32}.
C1_ParamInBody ==
    ( /\ AReturned
      /\ acall.expr = FuncDecl(N_x, <<Param(N_a, S_int32)>>, <<S_int32>>,
                               Identifier(N_a))
      /\ ~ContainsKey(acall.v, N_a)
      /\ ~ContainsKey(acall.v, N_x) )
    => /\ acall.ok
       /\ ContainsKey(analyzer, N_x)
       /\ analyzer[N_x] = FnType(<<Int32>>, Int32)

\* A function declaration that is well typed but for the name it declares:
\* known return type and parameter types, body of the return type.
WellTypedBody(v, expr, block) ==
    /\ get_type(expr.rtype).ok
    /\ \A i \in 1..Len(expr.params) : get_type(<<expr.params[i].kind>>).ok
    /\ block.ok
    /\ block.ty = get_type(expr.rtype).ty
RedeclareLeaves(v, expr, block) ==
    WellTypedBody(v, expr, block) =>
        /\ ~acall.ok
        /\ acall.err = FunctionRedeclare(expr.identifier)
        /\ analyzer = MapInsert(block.v, expr.identifier, DeclaredType(expr))

\* C2: analyzing an otherwise well-typed function declaration named n while
\* the table binds n fails with FunctionRedeclare(n), and afterwards the table
\* maps n to the new declaration's Function type.
C2_RedeclareNoRollback ==
    ( /\ AReturned
      /\ acall.expr.tag = "FuncDecl"
      /\ ContainsKey(acall.v, acall.expr.identifier) )
    => RedeclareLeaves(acall.v, acall.expr,
                       analyze_expr(acall.v, acall.expr.block))

C2_Witness ==
    /\ AReturned
    /\ acall.expr.tag = "FuncDecl"
    /\ ContainsKey(acall.v, N_x)
    /\ acall.v[N_x] = Int32
    /\ acall.err = FunctionRedeclare(N_x)
    /\ analyzer[N_x] = FnType(<<Int32>>, Float32)

\* The result a binary expression must have, from the results l and r of its
\* operands.
BinResultIs(l, r) ==
    (l.ok /\ r.ok) =>
        IF l.ty = r.ty
        THEN acall.ok /\ acall.ty = l.ty
        ELSE ~acall.ok /\ acall.err = InvalidBinExpr(l.ty, r.ty)
BinOperands(l, rhs) == BinResultIs(l, IF l.ok THEN analyze_expr(l.v, rhs) ELSE l)
MixedFails(res) == ~res.ok /\ res.err = InvalidBinExpr(Int32, Float32)

\* C4: a binary expression analyzes to the operands' common type when their
\* types are equal, and fails with InvalidBinExpr{left type, right type}
\* otherwise; with x an Int32 and y a Float32, `x op y` fails with
\* InvalidBinExpr{Int32, Float32} for each of + - * /.
C4_BinExprTypes ==
    /\ (AReturned /\ acall.expr.tag = "BinExpr")
        => BinOperands(analyze_expr(acall.v, acall.expr.lhs), acall.expr.rhs)
    /\ ( /\ ContainsKey(analyzer, N_x) /\ analyzer[N_x] = Int32
         /\ ContainsKey(analyzer, N_y) /\ analyzer[N_y] = Float32 )
        => \A op \in Ops :
             MixedFails(analyze_expr(analyzer,
                            BinExpr(Identifier(N_x), Identifier(N_y), op)))

C4_Witness ==
    /\ AReturned
    /\ acall.expr = BinExpr(Identifier(N_x), Identifier(N_y), "Bar")
    /\ ContainsKey(acall.v, N_x) /\ acall.v[N_x] = Int32
    /\ ContainsKey(acall.v, N_y) /\ acall.v[N_y] = Float32
    /\ acall.err = InvalidBinExpr(Int32, Float32)

LetReturns(init) ==
    acall.ok =>
        /\ init.ok
        /\ acall.ty = init.ty
        /\ ContainsKey(analyzer, acall.expr.varname)
        /\ analyzer[acall.expr.varname] = init.ty

\* C5: after let-declarations only, an identifier analyzes to the initializer
\* type of the latest successful let of its name (unbound if there is none),
\* whether the let stood in a Block or not; a successful LetDecl returns its
\* initializer's type; and `let x = 1` returns Int32 and leaves x an Int32.
C5_LatestLet ==
    /\ letsonly =>
         \A n \in SemNames \cup {N_a} :
            analyze_var(analyzer, n) =
                IF ContainsKey(recent, n) THEN SemOk(analyzer, recent[n])
                ELSE SemErr(analyzer, UndeclaredVariable(n))
    /\ (AReturned /\ acall.expr.tag = "LetDecl")
         => LetReturns(analyze_expr(acall.v, acall.expr.expr))
    /\ (AReturned /\ acall.expr = LetDecl(N_x, I1))
         => /\ acall.ok /\ acall.ty = Int32
            /\ analyze_var(analyzer, N_x) = SemOk(analyzer, Int32)

C5_Witness ==
    /\ AReturned
    /\ letsonly
    /\ acall.expr = Block(<<LetDecl(N_x, F2)>>)
    /\ ContainsKey(acall.v, N_x) /\ acall.v[N_x] = Int32
    /\ analyze_var(analyzer, N_x) = SemOk(analyzer, Float32)

\* The result of element i of a Block analyzed from table v: every element
\* before it has been analyzed, in order.
RECURSIVE ElemResult(_, _, _)
ElemResult(v, exprs, i) ==
    IF i = 1 THEN analyze_expr(v, exprs[1])
    ELSE analyze_expr(ElemResult(v, exprs, i - 1).v, exprs[i])
BlockReturns(lastres) ==
    /\ acall.ok
    /\ acall.ty = lastres.ty
    /\ analyzer = lastres.v

\* C6: a Block has the type of its last element, analyzed after the elements
\* before it in order; an empty Block is an Int32; so `func x(): int32 {}`
\* is a Function{[], Int32}, and with return type void or none it fails with
\* InvalidFnType{return_type: Void, block_type: Int32}.
C6_BlockType ==
    /\ (AReturned /\ acall.expr = Block(<<>>))
         => acall.ok /\ acall.ty = Int32 /\ analyzer = acall.v
    /\ ( /\ AReturned /\ acall.expr.tag = "Block" /\ acall.expr.exprs # <<>>
         /\ \A i \in 1..Len(acall.expr.exprs) :
                ElemResult(acall.v, acall.expr.exprs, i).ok )
         => BlockReturns(ElemResult(acall.v, acall.expr.exprs,
                                    Len(acall.expr.exprs)))
    /\ ( /\ AReturned
         /\ acall.expr = FuncDecl(N_x, <<>>, <<S_int32>>, Block(<<>>))
         /\ ~ContainsKey(acall.v, N_x) )
         => /\ acall.ok /\ acall.ty = FnType(<<>>, Int32)
            /\ analyzer = MapInsert(acall.v, N_x, FnType(<<>>, Int32))
    /\ ( /\ AReturned
         /\ acall.expr \in { FuncDecl(N_x, <<>>, rtype, Block(<<>>)) :
                               rtype \in {<<>>, <<S_void>>} } )
         => ~acall.ok /\ acall.err = InvalidFnType(Void, Int32)

C6_Witness ==
    /\ AReturned
    /\ acall.expr = FuncDecl(N_x, <<>>, <<S_void>>, Block(<<>>))
    /\ acall.err = InvalidFnType(Void, Int32)
    /\ ~ContainsKey(analyzer, N_x)


(***************************************************************************)
(*                            CODE GENERATOR                               *)
(*                                                                         *)
(* A generator value g is {analyzer, variables, ir, fnload}: the symbol    *)
(* table of the analyzer it owns, the IR binding table, the instructions   *)
(* the builder has emitted, and what the build does on a load through a    *)
(* function handle (the one choice the source leaves to the IR library).   *)
(* A panic (an unwrap of None or of Err, into_int_value on another kind)   *)
(* is the error Abort: it ends the program.                                *)
(***************************************************************************)

\* CompilationError; TypeError carries a SemanticError, UndeclaredVariable and
\* InvalidRedeclare a name, InvalidNegation an expression.
CErr(kind, sem, name, expr) == [kind |-> kind, sem |-> sem, name |-> name, expr |-> expr]
NoCErr == CErr("", NoSErr, <<>>, NoExpr)
TypeError(sem) == CErr("TypeError", sem, <<>>, NoExpr)
Panic == CErr("Abort", NoSErr, <<>>, NoExpr)

\* Result<Option<BasicValueEnum>, CompilationError> of a call, with the
\* generator g the call leaves behind; val is <<>> for None, <<value>> for Some.
GOk(g, val) == [ok |-> TRUE, err |-> NoCErr, val |-> val, g |-> g]
GErr(g, err) == [ok |-> FALSE, err |-> err, val |-> <<>>, g |-> g]

\* The builder appends an instruction; the analyzer of g is left as v.
Emit(g, ins) == [g EXCEPT !.ir = Append(@, ins)]
WithAnalyzer(g, v) == [g EXCEPT !.analyzer = v]

\* CodeGenerator::new
GeneratorNew(fnload) ==
    [analyzer |-> AnalyzerNew, variables |-> <<>>, ir |-> <<>>, fnload |-> fnload]

\* An IR value: its kind (is_int_value, is_float_value, a pointer, a
\* function), the constant or instruction it comes from, the text that goes
\* with that (a constant's numeral, a variable's or function's name, the type
\* an alloca holds) and its operand values.
Value(kind, op, name, args) == [kind |-> kind, op |-> op, name |-> name, args |-> args]

\* str::parse::<u64>: an optional '+', then decimal digits, at most u64::MAX.
\* The number parsed is kept as its numeral without leading zeros.
ParseU64(s) ==
    LET U64Max == <<"1", "8", "4", "4", "6", "7", "4", "4", "0", "7", "3", "7", "0",
                    "9", "5", "5", "1", "6", "1", "5">>
        DigitOrder == <<"0", "1", "2", "3", "4", "5", "6", "7", "8", "9">>
        DigitVal(c) == CHOOSE i \in 0..9 : DigitOrder[i + 1] = c
        RECURSIVE StripZeros(_)
        StripZeros(t) == IF Len(t) > 1 /\ Head(t) = "0" THEN StripZeros(Tail(t)) ELSE t
        RECURSIVE NumeralLeq(_, _)
        NumeralLeq(a, b) ==
            IF a = <<>> THEN TRUE
            ELSE IF Head(a) = Head(b) THEN NumeralLeq(Tail(a), Tail(b))
            ELSE DigitVal(Head(a)) < DigitVal(Head(b))
        body == IF s # <<>> /\ Head(s) = "+" THEN Tail(s) ELSE s
        d == StripZeros(body)
    IN IF body = <<>> \/ \E i \in 1..Len(body) : body[i] \notin Digits
       THEN [ok |-> FALSE, n |-> <<>>]
       ELSE IF Len(d) < Len(U64Max) \/ (Len(d) = Len(U64Max) /\ NumeralLeq(d, U64Max))
       THEN [ok |-> TRUE, n |-> d]
       ELSE [ok |-> FALSE, n |-> <<>>]

\* str::parse::<f64> on the texts the tokenizer makes, digits and dots: at
\* most one dot and at least one digit.  The float parsed is kept as its text.
ParseF64(s) ==
    IF /\ \A i \in 1..Len(s) : s[i] \in Digits \cup {"."}
       /\ Cardinality({ i \in 1..Len(s) : s[i] = "." }) <= 1
       /\ \E i \in 1..Len(s) : s[i] \in Digits
    THEN [ok |-> TRUE, n |-> s]
    ELSE [ok |-> FALSE, n |-> <<>>]

\* CodeGenerator::load
load(g, vname) ==
    IF ~ContainsKey(g.variables, vname)
    THEN GErr(g, CErr("UndeclaredVariable", NoSErr, vname, NoExpr))
    ELSE LET varptr == g.variables[vname] IN
         IF varptr.op = "alloca"
         THEN GOk(Emit(g, "load"), <<Value(varptr.name[1], "load", vname, <<>>)>>)
         ELSE IF g.fnload = "abort" THEN GErr(Emit(g, "load"), Panic)
         ELSE GOk(Emit(g, "load"), <<Value("fn", "load", vname, <<>>)>>)

\* CodeGenerator::type_from_stype: None (<<>>) for Void; a parameter of no
\* type is skipped, a function type among the parameters or as the return
\* type is a pointer.
RECURSIVE type_from_stype(_)
type_from_stype(stype) ==
    CASE stype = Int32 -> <<[kind |-> "Primitive", ty |-> "int"]>>
      [] stype = Float32 -> <<[kind |-> "Primitive", ty |-> "float"]>>
      [] stype = Void -> <<>>
      [] stype.tag = "FnType" ->
            LET Basic(t) == IF t.kind = "Fn" THEN "ptr" ELSE t.ty
                each == [i \in 1..Len(stype.params) |->
                            type_from_stype(stype.params[i])]
                some == SelectSeq(each, LAMBDA t : t # <<>>)
                rtype == type_from_stype(stype.rtype)
            IN <<[kind |-> "Fn",
                  params |-> [j \in 1..Len(some) |-> Basic(some[j][1])],
                  ret |-> IF rtype = <<>> THEN "void" ELSE Basic(rtype[1])]>>


RECURSIVE compile_ast(_, _)
RECURSIVE compile_func_decl(_, _, _, _)
RECURSIVE compile_block(_, _)
RECURSIVE compile_negative(_, _)
RECURSIVE compile_vardecl(_, _, _)
RECURSIVE compile_binexpr(_, _, _, _, _)
RECURSIVE CompileEach(_, _)

\* After one element of a Vec<Expression> compiled to r: `?` on the elements
\* before the last, the result of the last.
EachCompiled(r, rest) ==
    IF ~r.ok \/ rest = <<>> THEN r ELSE CompileEach(r.g, rest)

\* The elements of a non-empty Vec<Expression> in order (Program arm,
\* compile_block, the Block body of compile_func_decl).
CompileEach(g, exprs) == EachCompiled(compile_ast(g, Head(exprs)), Tail(exprs))

\* CodeGenerator::compile_block
compile_block(g, exprs) ==
    IF Len(exprs) > 0 THEN CompileEach(g, exprs) ELSE GOk(g, <<>>)

\* compile_func_decl after the body compiled to r: build_return on Some.
FuncReturn(r, identifier) ==
    IF ~r.ok THEN r
    ELSE IF r.val # <<>> THEN GOk(Emit(r.g, "ret"), <<Value("ptr", "function", identifier, <<>>)>>)
    ELSE GOk(r.g, <<Value("ptr", "function", identifier, <<>>)>>)

\* compile_func_decl from add_function on, in a generator g whose analyzer
\* create_var has left.
FuncEmit(g, identifier, block) ==
    IF ContainsKey(g.variables, identifier) THEN 
         GErr(g, CErr("InvalidRedeclare", NoSErr, identifier, NoExpr))
    ELSE IF block.tag = "Block"
    THEN IF block.exprs = <<>>
         THEN GErr([g EXCEPT !.variables =
                        MapInsert(@, identifier, Value("ptr", "function", identifier, <<>>))], Panic)
         ELSE FuncReturn(CompileEach([g EXCEPT !.variables =
                            MapInsert(@, identifier, Value("ptr", "function", identifier, <<>>))],
                                     block.exprs), identifier)
    ELSE FuncReturn(compile_ast([g EXCEPT !.variables =
                        MapInsert(@, identifier, Value("ptr", "function", identifier, <<>>))],
                                block), identifier)

\* compile_func_decl after `self.analyzer.create_var(&identifier, &*block)`
\* returned c.
FuncCreated(g, c, identifier, block, stype) ==
    IF ~c.ok THEN GErr(WithAnalyzer(g, c.v), TypeError(c.err))
    ELSE IF type_from_stype(stype) = <<>> \/ type_from_stype(stype)[1].kind # "Fn"
    THEN GErr(WithAnalyzer(g, c.v), Panic)
    ELSE FuncEmit(Emit(WithAnalyzer(g, c.v), "function"), identifier, block)

\* CodeGenerator::compile_func_decl
compile_func_decl(g, identifier, block, stype) ==
    FuncCreated(g, create_var(g.analyzer, identifier, block), identifier, block,
                stype)

\* compile_negative after the operand compiled to r.
NegativeVal(r, expr) ==
    IF ~r.ok THEN r
    ELSE IF r.val = <<>> THEN GErr(r.g, Panic)
    ELSE IF r.val[1].kind = "int"
    THEN GOk(Emit(r.g, "intneg"), <<Value("int", "intneg", <<>>, r.val)>>)
    ELSE IF r.val[1].kind = "float"
    THEN GOk(Emit(r.g, "floatneg"), <<Value("float", "floatneg", <<>>, r.val)>>)
    ELSE GErr(r.g, CErr("InvalidNegation", NoSErr, <<>>, expr))

\* A compile_negative that negates the value of every operand, a Negative
\* included.
NegateEach(g, expr) == NegativeVal(compile_ast(g, expr), expr)

\* CodeGenerator::compile_negative
compile_negative(g, expr) ==
    IF expr.tag = "Negative" THEN compile_ast(g, expr.expr)
    ELSE NegativeVal(compile_ast(g, expr), expr)

\* A compile_vardecl that leaves the name in the symbol table when the
\* initializer compiled to no value.
VardeclKeepsName(r, alloc, varname) ==
    IF ~r.ok THEN r
    ELSE IF r.val # <<>>
    THEN GOk([Emit(r.g, "store") EXCEPT !.variables = MapInsert(@, varname, alloc)],
             <<alloc>>)
    ELSE GOk([r.g EXCEPT !.variables = MapInsert(@, varname, alloc)], <<alloc>>)

\* compile_vardecl after the initializer compiled to r: the store or the
\* delete_var, then the insert into the IR binding table.
VardeclStored(r, alloc, varname) ==
    IF ~r.ok THEN r
    ELSE IF r.val # <<>>
    THEN GOk([Emit(r.g, "store") EXCEPT !.variables = MapInsert(@, varname, alloc)],
             <<alloc>>)
    ELSE GOk([WithAnalyzer(r.g, delete_var(r.g.analyzer, varname))
                 EXCEPT !.variables = MapInsert(@, varname, alloc)],
             <<alloc>>)

\* compile_vardecl after `self.analyzer.create_var(&variable, &expr)`
\* returned c.
VardeclCreated(g, c, alloc, varname, expr) ==
    IF ~c.ok THEN GErr(WithAnalyzer(g, c.v), TypeError(c.err))
    ELSE VardeclStored(compile_ast(WithAnalyzer(g, c.v), expr), alloc, varname)

\* The storage build_alloca makes for a CodeGenType: a function is held as a
\* pointer.
AllocaOf(cgtype) ==
    Value("ptr", "alloca", <<IF cgtype.kind = "Fn" THEN "ptr" ELSE cgtype.ty>>, <<>>)

\* compile_vardecl after type_based_on_semantics analyzed the initializer to
\* s: the alloca.
VardeclTyped(g, s, varname, expr) ==
    IF ~s.ok THEN GErr(WithAnalyzer(g, s.v), TypeError(s.err))
    ELSE IF type_from_stype(s.ty) = <<>>
    THEN GErr(WithAnalyzer(g, s.v), CErr("TryingAssignVoid", NoSErr, <<>>, NoExpr))
    ELSE VardeclCreated(Emit(WithAnalyzer(g, s.v), "alloca"),
                        create_var(s.v, varname, expr),
                        AllocaOf(type_from_stype(s.ty)[1]),
                        varname, expr)

\* CodeGenerator::compile_vardecl
compile_vardecl(g, varname, expr) ==
    VardeclTyped(g, analyze_expr(g.analyzer, expr), varname, expr)

\* compile_binexpr after both operands compiled, to lhs and to r; an operator
\* other than + - * / panics.
BinBoth(lhs, r, operator, stype) ==
    LET kind == IF stype = Int32 THEN "int" ELSE "float"
        ins == CASE operator = "Plus" -> "addition"
                 [] operator = "Minus" -> "subtraction"
                 [] operator = "Star" -> "multiplication"
                 [] operator = "Bar" -> "division"
                 [] OTHER -> "panic"
    IN IF ~r.ok THEN r
       ELSE IF r.val = <<>> THEN GErr(r.g, Panic)
       ELSE IF stype \in {Int32, Float32}
       THEN IF lhs.kind # kind \/ r.val[1].kind # kind \/ ins = "panic"
            THEN GErr(r.g, Panic)
            ELSE GOk(Emit(r.g, ins), <<Value(kind, ins, <<>>, <<lhs, r.val[1]>>)>>)
       ELSE GErr(r.g, TypeError(InvalidBinExpr(stype, stype)))

\* compile_binexpr after the left operand compiled to l.
BinLhs(l, rhs, operator, stype) ==
    IF ~l.ok THEN l
    ELSE IF l.val = <<>> THEN GErr(l.g, Panic)
    ELSE BinBoth(l.val[1], compile_ast(l.g, rhs), operator, stype)

\* CodeGenerator::compile_binexpr
compile_binexpr(g, lhs, rhs, operator, stype) ==
    BinLhs(compile_ast(g, lhs), rhs, operator, stype)

\* The BinExpr arm of compile_ast after analyze_binexpr returned stype.
BinArm(g, expr, stype) ==
    IF ~stype.ok THEN GErr(WithAnalyzer(g, stype.v), TypeError(stype.err))
    ELSE compile_binexpr(WithAnalyzer(g, stype.v), expr.lhs, expr.rhs, expr.op,
                         stype.ty)

\* The FuncDecl arm of compile_ast after analyze_expr returned stype.
FuncDeclArm(g, expr, stype) ==
    IF ~stype.ok THEN GErr(WithAnalyzer(g, stype.v), TypeError(stype.err))
    ELSE compile_func_decl(WithAnalyzer(g, stype.v), expr.identifier, expr.block,
                           stype.ty)

\* CodeGenerator::compile_ast
compile_ast(g, expr) ==
    CASE expr.tag = "IntLit" ->
            IF ParseU64(expr.s).ok
            THEN GOk(g, <<Value("int", "const", ParseU64(expr.s).n, <<>>)>>)
            ELSE GErr(g, Panic)
      [] expr.tag = "FloatLit" ->
            IF ParseF64(expr.s).ok
            THEN GOk(g, <<Value("float", "const", ParseF64(expr.s).n, <<>>)>>)
            ELSE GErr(g, Panic)
      [] expr.tag = "LetDecl" -> compile_vardecl(g, expr.varname, expr.expr)
      [] expr.tag = "Program" ->
            IF expr.exprs = <<>> THEN GOk(g, <<>>) ELSE CompileEach(g, expr.exprs)
      [] expr.tag = "Identifier" -> load(g, expr.s)
      [] expr.tag = "BinExpr" ->
            BinArm(g, expr, analyze_binexpr(g.analyzer, expr.lhs, expr.rhs))
      [] expr.tag = "Negative" -> compile_negative(g, expr.expr)
      [] expr.tag = "Block" -> compile_block(g, expr.exprs)
      [] expr.tag = "FuncDecl" ->
            FuncDeclArm(g, expr, analyze_expr(g.analyzer, expr))


(***************************************************************************)
(* The generator lowering one program: compile_source hands the Program   *)
(* to compile_ast, whose Program arm lowers the statements in order and   *)
(* returns at the first error.  One step lowers one statement.            *)
(***************************************************************************)

GenOperands == {I1, Identifier(N_x), Identifier(N_y)}
GenBinExprs ==
    { BinExpr(lhs, rhs, op) : lhs \in GenOperands, rhs \in GenOperands, op \in Ops }
GenNegatives ==
    { Negative(I1), Negative(Identifier(N_x)), Negative(Negative(Identifier(N_x))),
      Negative(Block(<<>>)), Negative(LetDecl(N_y, I1)) }
GenInitializers ==
    { I1, F2, Identifier(N_x), Block(<<>>), Block(<<Block(<<>>)>>),
      Negative(I1), BinExpr(Identifier(N_x), I1, "Plus") }
GenLetDecls == { LetDecl(n, e) : n \in SemNames, e \in GenInitializers }
GenBlocks ==
    { Block(<<>>), Block(<<I1>>), Block(<<LetDecl(N_x, F2), Identifier(N_x)>>) }
GenBodies ==
    { I1, F2, Identifier(N_a), Identifier(N_x), Block(<<>>), Block(<<I1>>),
      Block(<<LetDecl(N_y, I1), Identifier(N_y)>>) }
GenFuncDecls ==
    { FuncDecl(n, params, rtype, block) :
        n \in SemNames, params \in { <<>>, <<Param(N_a, S_int32)>> },
        rtype \in { <<>>, <<S_int32>>, <<S_f32>> }, block \in GenBodies }
\* Bound: at most MaxNeg Negative nodes are nested directly.
MaxNeg == 3

\* n Negative nodes around e.
RECURSIVE Negated(_, _)
Negated(n, e) == IF n = 0 THEN e ELSE Negative(Negated(n - 1, e))
NegCores == { I1, F2, Identifier(N_x), BinExpr(Identifier(N_x), I1, "Plus") }
NegChains == { Negated(n, e) : n \in 1..MaxNeg, e \in NegCores }

\* Function declarations in a function body, in a let initializer and in
\* an operand of a binary expression, and in a bare Block: DeclY is well
\* typed, DeclNoType has no return type.
DeclY == FuncDecl(N_y, <<>>, <<S_int32>>, I1)
DeclNoType == FuncDecl(N_y, <<>>, <<>>, I1)
NestedDecls ==
    { LetDecl(N_x, DeclY), LetDecl(N_x, DeclNoType),
      LetDecl(N_x, Block(<<DeclY, I1>>)),
      FuncDecl(N_x, <<>>, <<S_int32>>, Block(<<DeclY, I1>>)),
      FuncDecl(N_x, <<>>, <<S_int32>>, Block(<<DeclY>>)),
      BinExpr(DeclY, Identifier(N_y), "Plus"), BinExpr(DeclY, I1, "Plus"),
      BinExpr(Block(<<DeclY, I1>>), I1, "Plus"),
      BinExpr(I1, Block(<<DeclY, I1>>), "Star"),
      Negative(LetDecl(N_x, DeclY)),
      Block(<<DeclY, I1>>), Block(<<I1, DeclY>>) }

\* u64::MAX + 1
TooLong ==
    IntLit(<<"1", "8", "4", "4", "6", "7", "4", "4", "0", "7", "3", "7", "0",
             "9", "5", "5", "1", "6", "1", "6">>)
GenExprs ==
    {I1, F2, FloatLit(<<"1", ".", "2", ".", "3">>), TooLong, Identifier(N_x),
     Identifier(N_y)}
        \cup GenBinExprs \cup GenNegatives \cup GenLetDecls \cup GenBlocks
        \cup GenFuncDecls \cup NegChains \cup NestedDecls

\* What the build does on a load through a function handle.
FnLoads == {"abort", "value"}

\* The generator between statements: the instructions emitted are kept with
\* the statement that emitted them.
Between(g) == [g EXCEPT !.ir = <<>>]

GenFrame == UNCHANGED <<lexvars, parvars, semvars>>

GenInit ==
    /\ generator \in { Between(GeneratorNew(fnload)) : fnload \in FnLoads }
    /\ gcall = [st |-> "idle"]
    /\ LexIdle
    /\ ParIdle
    /\ SemIdle

\* The Program arm still has statements to lower.
Compiling == gcall.st \in {"idle", "lowering"}

\* compile_ast(expr) returned r to the loop of the Program arm.
Lowered(expr, r) ==
    /\ generator' = Between(r.g)
    /\ gcall' = [st |-> IF r.ok THEN "lowering" ELSE "failed", expr |-> expr,
                 g |-> generator, ok |-> r.ok, err |-> r.err, val |-> r.val,
                 ir |-> r.g.ir]

CompileStmt(expr) ==
    /\ Compiling
    /\ Lowered(expr, compile_ast(generator, expr))
    /\ GenFrame

\* The Program arm has lowered its last statement: compile_ast returns Ok.
CompileDone ==
    /\ Compiling
    /\ gcall' = [gcall EXCEPT !.st = "done"]
    /\ UNCHANGED generator
    /\ GenFrame

GenNext ==
    \/ \E expr \in GenExprs : CompileStmt(expr)
    \/ CompileDone

SpecGen == GenInit /\ [][GenNext]_vars


(***************************************************************************)
(* Claims about the generator                                              *)
(***************************************************************************)

\* Some let or function declaration inside expr declares name.
RECURSIVE Declares(_, _)
Declares(expr, name) ==
    CASE expr.tag = "LetDecl" -> expr.varname = name \/ Declares(expr.expr, name)
      [] expr.tag = "FuncDecl" -> expr.identifier = name \/ Declares(expr.block, name)
      [] expr.tag = "Negative" -> Declares(expr.expr, name)
      [] expr.tag = "BinExpr" -> Declares(expr.lhs, name) \/ Declares(expr.rhs, name)
      [] expr.tag \in {"Block", "Program"} ->
            \E i \in 1..Len(expr.exprs) : Declares(expr.exprs[i], name)
      [] OTHER -> FALSE

\* C3: after the generator has successfully lowered a function declaration
\* named f whose body declares no f, the symbol table binds f to
\* Function{parameter types, return type}: an identifier reference to f
\* analyzes to that type.
C3_FunctionBound ==
    ( /\ gcall.st \in {"lowering", "done"}
      /\ "expr" \in DOMAIN gcall
      /\ gcall.expr.tag = "FuncDecl"
      /\ gcall.ok
      /\ ~Declares(gcall.expr.block, gcall.expr.identifier) )
    => analyze_var(generator.analyzer, gcall.expr.identifier)
         = SemOk(generator.analyzer, DeclaredType(gcall.expr))


\* The expression compiles to no value: a Block that is empty or ends in
\* such a Block.
RECURSIVE ValueLess(_)
ValueLess(expr) ==
    /\ expr.tag = "Block"
    /\ \/ expr.exprs = <<>>
       \/ ValueLess(expr.exprs[Len(expr.exprs)])

\* The statement just lowered is a let whose initializer has a type other
\* than Void and compiles to no value.
LetWithoutValue ==
    /\ "expr" \in DOMAIN gcall
    /\ gcall.expr.tag = "LetDecl"
    /\ ValueLess(gcall.expr.expr)
    /\ analyze_expr(gcall.g.analyzer, gcall.expr.expr).ok
    /\ analyze_expr(gcall.g.analyzer, gcall.expr.expr).ty # Void

\* C15: lowering a let whose initializer has a type other than Void but
\* compiles to no value (an empty Block) succeeds and leaves the name out of
\* the symbol table while the IR binding table holds its storage: the
\* analyzer rejects a later reference to the name although the generator
\* can load it.
C15_StorageWithoutName ==
    LetWithoutValue =>
        /\ gcall.ok
        /\ gcall.val = <<generator.variables[gcall.expr.varname]>>
        /\ ~ContainsKey(generator.analyzer, gcall.expr.varname)
        /\ ContainsKey(generator.variables, gcall.expr.varname)
        /\ generator.variables[gcall.expr.varname].op = "alloca"
        /\ analyze_expr(generator.analyzer, Identifier(gcall.expr.varname))
              = SemErr(generator.analyzer, UndeclaredVariable(gcall.expr.varname))
        /\ load(generator, gcall.expr.varname).ok

\* `let x = { }` has been lowered in a generator that had x declared.
C15_Witness ==
    /\ LetWithoutValue
    /\ gcall.expr = LetDecl(N_x, Block(<<>>))
    /\ ContainsKey(gcall.g.analyzer, N_x)
    /\ gcall.ok
    /\ ~ContainsKey(generator.analyzer, N_x)
    /\ ContainsKey(generator.variables, N_x)


\* The statement just lowered is a literal whose text str::parse rejects.
BadLiteral ==
    /\ "expr" \in DOMAIN gcall
    /\ \/ gcall.expr.tag = "IntLit" /\ ~ParseU64(gcall.expr.s).ok
       \/ gcall.expr.tag = "FloatLit" /\ ~ParseF64(gcall.expr.s).ok

\* C16: lowering a literal whose raw text cannot be parsed as a number
\* returns the error LitParseError.
C16_LitParseError ==
    BadLiteral => ~gcall.ok /\ gcall.err.kind = "LitParseError"



\* The number of Negative nodes directly nested at the top of expr, and the
\* expression below them.
RECURSIVE NegDepth(_)
NegDepth(expr) == IF expr.tag = "Negative" THEN 1 + NegDepth(expr.expr) ELSE 0
RECURSIVE NegCore(_)
NegCore(expr) == IF expr.tag = "Negative" THEN NegCore(expr.expr) ELSE expr

\* The negation instructions among the instructions ir.
Negations(ir) == { i \in 1..Len(ir) : ir[i] \in {"intneg", "floatneg"} }

\* The statement just lowered is a nest of Negative nodes around an
\* expression from NegCores that lowers, from the generator the statement
\* started in, to the numeric value e.val[1].
NegatedNumeric(e) ==
    /\ "expr" \in DOMAIN gcall
    /\ gcall.expr.tag = "Negative"
    /\ NegCore(gcall.expr) \in NegCores
    /\ e.ok
    /\ e.val # <<>>
    /\ e.val[1].kind \in {"int", "float"}

\* What C21 says of the lowering when the operand lowers to e.
NegatedOutcome(e) ==
    NegatedNumeric(e) =>
        /\ gcall.ok
        /\ Cardinality(Negations(gcall.ir)) = NegDepth(gcall.expr) % 2
        /\ IF NegDepth(gcall.expr) % 2 = 0
           THEN gcall.ir = e.g.ir /\ gcall.val = e.val
           ELSE LET ins == IF e.val[1].kind = "int" THEN "intneg" ELSE "floatneg" IN
                /\ gcall.ir = Append(e.g.ir, ins)
                /\ gcall.val = <<Value(e.val[1].kind, ins, <<>>, e.val)>>

\* C21: lowering n directly nested Negative nodes around a numeric
\* expression e emits exactly n mod 2 negation instructions: an even nest
\* gives e's own value and instructions, an odd nest one negation of e's
\* value, integer or float according to the kind of that value.
C21_NegationParity ==
    "expr" \in DOMAIN gcall =>
        NegatedOutcome(compile_ast(gcall.g, NegCore(gcall.expr)))

\* `- - - x` has been lowered with x an integer variable, and so has not
\* been negated three times.
C21_Witness ==
    /\ "expr" \in DOMAIN gcall
    /\ gcall.expr = Negated(3, Identifier(N_x))
    /\ gcall.ok
    /\ gcall.ir = <<"load", "intneg">>
    /\ gcall.val[1].kind = "int"


\* No entry of the symbol table v holds Void.
NoVoidEntry(v) == \A name \in DOMAIN v : v[name] # Void

\* The function declaration has no return type or the return type `void`.
ReturnsVoid(expr) ==
    expr.tag = "FuncDecl" /\ (expr.rtype = <<>> \/ expr.rtype = <<S_void>>)

\* What C22 says of an analysis of expr that returned r, its body (for a
\* function declaration) having analyzed to b.
VoidFree(r, b, expr) ==
    /\ r.ok => r.ty # Void
    /\ NoVoidEntry(r.v)
    /\ ReturnsVoid(expr) =>
          /\ ~r.ok
          /\ r.err.kind = "InvalidFnType" \/ (~b.ok /\ r.err = b.err)

\* C22: the analyzer returns Void for no expression and no entry of the
\* symbol table holds Void, whatever the generator has lowered before; so
\* every function declaration with no return type or with the return type
\* `void` fails analysis, with InvalidFnType or with the error of its body,
\* and lowering a let never fails with TryingAssignVoid.
C22_NeverVoid ==
    /\ NoVoidEntry(generator.analyzer)
    /\ \A expr \in SemExprs :
          VoidFree(analyze_expr(generator.analyzer, expr),
                   IF expr.tag = "FuncDecl"
                   THEN analyze_expr(generator.analyzer, expr.block)
                   ELSE SemOk(generator.analyzer, NoType),
                   expr)
    /\ "expr" \in DOMAIN gcall => gcall.err.kind # "TryingAssignVoid"

\* A function declaration without a return type has been lowered in a
\* generator with a declared name, and has failed with InvalidFnType.
C22_Witness ==
    /\ "expr" \in DOMAIN gcall
    /\ ReturnsVoid(gcall.expr)
    /\ gcall.g.analyzer # <<>>
    /\ ~gcall.ok
    /\ gcall.err = TypeError(InvalidFnType(Void, Int32))


\* The names of the function declarations that the generator analyzes more
\* than once when it lowers expr: those in a function body, in a let
\* initializer or in an operand of a binary expression. `under` says that
\* expr itself is in such a place.
RECURSIVE Reanalyzed(_, _)
Reanalyzed(expr, under) ==
    CASE expr.tag = "FuncDecl" ->
            (IF under THEN {expr.identifier} ELSE {})
                \cup Reanalyzed(expr.block, TRUE)
      [] expr.tag = "LetDecl" -> Reanalyzed(expr.expr, TRUE)
      [] expr.tag = "BinExpr" ->
            Reanalyzed(expr.lhs, TRUE) \cup Reanalyzed(expr.rhs, TRUE)
      [] expr.tag = "Negative" -> Reanalyzed(expr.expr, under)
      [] expr.tag \in {"Block", "Program"} ->
            UNION { Reanalyzed(expr.exprs[i], under) : i \in 1..Len(expr.exprs) }
      [] OTHER -> {}

\* The statement just lowered holds a function declaration in such a place.
LoweredNested ==
    /\ "expr" \in DOMAIN gcall
    /\ Reanalyzed(gcall.expr, FALSE) # {}

\* The lowering failed with FunctionRedeclare of one of those declarations.
RedeclareRejected ==
    /\ ~gcall.ok
    /\ gcall.err.kind = "TypeError"
    /\ gcall.err.sem.kind = "FunctionRedeclare"
    /\ gcall.err.sem.name \in Reanalyzed(gcall.expr, FALSE)

FirstAnalysisOk ==
    /\ gcall.expr.tag \in {"LetDecl", "FuncDecl", "BinExpr"}
    /\ analyze_expr(gcall.g.analyzer, gcall.expr).ok

\* The statement just lowered, in a generator that had declared nothing, is
\* the function declaration DeclY or a bare Block with it as an element.
FreshDecl ==
    /\ "expr" \in DOMAIN gcall
    /\ gcall.expr \in {DeclY, Block(<<DeclY, I1>>), Block(<<I1, DeclY>>)}
    /\ gcall.g.analyzer = <<>>
    /\ gcall.g.variables = <<>>

=============================================================================
